---- MODULE Spec2Model ----
(***************************************************************************)
(* Carbon-aware FaaS scheduling: the dispatcher (src/src/dispatcher) under *)
(* the specification Spec, and the planner with its deployment step        *)
(* (src/src/agent/gcp_deploy/agent.py) under the specification PlanSpec.   *)
(*                                                                         *)
(* The dispatcher's instants are integers counting minutes of UTC, so the  *)
(* start of the hour of t is t - (t % 60); the planner's count half days.  *)
(* A Python dict is a record whose DOMAIN is                               *)
(* its set of keys, the empty dict being <<>>.  A call returns a value or  *)
(* raises: [kind |-> "return", value |-> v] or [kind |-> "raise", ...].    *)
(* The calls of datetime.now within one invocation give the same instant.  *)
(***************************************************************************)
EXTENDS Integers, Sequences, FiniteSets, TLC

VARIABLES
    now,        \* the clock, datetime.now(timezone.utc)
    mode,       \* the environment variable SCHEDULE_MODE
    pc,         \* "idle" until the event arrives, then "done"
    event,      \* the event handler was called with
    loaded,     \* the calls of load_schedule and what was read
    outcome,    \* what handler returned or raised
    tasks,      \* the tasks of the Cloud Tasks queue, in creation order
    wallclock,  \* the planner's datetime.now(), in half days
    metadata_file,  \* function_metadata.json, "functions"
    bucket,     \* schedule_<fn>.json of every function
    state_file, \* deployment_state.json
    run,        \* the local variables of run_scheduler
    calls       \* the calls of external services and the writes of a run

dispatcher_vars == <<now, mode, pc, event, loaded, outcome, tasks>>

planner_vars ==
    <<wallclock, metadata_file, bucket, state_file, run, calls>>

vars ==
    <<now, mode, pc, event, loaded, outcome, tasks,
      wallclock, metadata_file, bucket, state_file, run, calls>>

---------------------------------------------------------------------------
(* Bound of the model *)

\* the longest list of recommendations of a schedule document
MaxSlots == 2

---------------------------------------------------------------------------
(* Python helpers *)

None == "None"

Return(v) == [kind |-> "return", value |-> v]

Raise(e) == [kind |-> "raise", exc |-> e]

\* dt.replace(microsecond=0, second=0, minute=0)
HourStart(t) == t - (t % 60)

\* str.lower on the spellings of delay
Lower(s) ==
    CASE s = "True" -> "true"
      [] s = "False" -> "false"
      [] OTHER -> s

Front(s) == SubSeq(s, 1, Len(s) - 1)

\* list.sort(key=...) is stable: an item goes after the items already placed
\* whose key is not greater than its own.
InsertAfter(sorted, x, k) ==
    SubSeq(sorted, 1, k) \o <<x>> \o SubSeq(sorted, k + 1, Len(sorted))

\* no sort at all: the stored order is kept
KeepStoredOrder(s) == s

RECURSIVE SortByDatetime(_)
SortByDatetime(s) ==
    IF s = <<>> THEN <<>>
    ELSE LET sorted == SortByDatetime(Front(s))
             x == s[Len(s)]
         IN InsertAfter(sorted, x,
                Cardinality({i \in 1..Len(sorted) :
                                sorted[i].datetime <= x.datetime}))

\* a sort that is not stable: an item goes before the items of equal key
RECURSIVE SortByPriorityUnstable(_)
SortByPriorityUnstable(s) ==
    IF s = <<>> THEN <<>>
    ELSE LET sorted == SortByPriorityUnstable(Front(s))
             x == s[Len(s)]
         IN InsertAfter(sorted, x,
                Cardinality({i \in 1..Len(sorted) :
                                sorted[i].priority < x.priority}))

RECURSIVE SortByPriority(_)
SortByPriority(s) ==
    IF s = <<>> THEN <<>>
    ELSE LET sorted == SortByPriority(Front(s))
             x == s[Len(s)]
         IN InsertAfter(sorted, x,
                Cardinality({i \in 1..Len(sorted) :
                                sorted[i].priority <= x.priority}))

\* json.dumps(function_param).encode("utf-8")
JsonDumps(p) == <<"json", p>>

---------------------------------------------------------------------------
(* Input domains *)

Minutes == {0, 30}

Hours == {0, 1, 2}

Times == {h * 60 + m : h \in Hours, m \in Minutes}

Regions == {"r1", "r2"}

Priorities == {1, 2}

\* The datetime strings of persisted recommendations, one per forecast hour:
\* hour 0 written with a UTC offset ("01:00+01:00"), the later hours written
\* without one ("01:00", "02:00").
DatetimeStrings ==
    {[wall |-> 60, aware |-> TRUE, off |-> 60]}
        \cup {[wall |-> h * 60, aware |-> FALSE, off |-> 0] : h \in Hours \ {0}}

Urls == {"u1"}

Intensities == {"g1"}

\* a recommendation as the dispatcher expects it, function_url injected
Recommendations ==
    [datetime : DatetimeStrings, region : Regions, priority : Priorities,
     carbon_intensity : Intensities, function_url : Urls]

RecommendationLists ==
    UNION {[1..n -> Recommendations] : n \in 0..MaxSlots}

\* The object schedule_<function_name> of the bucket: absent, or a document.
Blobs ==
    {[exists |-> FALSE]}
        \cup {[exists |-> TRUE, doc |-> [recommendations |-> recs]] :
                recs \in RecommendationLists}

\* SCHEDULE_LOCATION
Locations == {"CLOUD", "LOCAL"}

\* SCHEDULE_MODE
Modes == {"CLOUD", "NONE"}

FunctionNames == {"f", "", None}

Delays == {None, "true", "True", "false", "False", "maybe"}

\* the deadline of an event: no key, a string that is not ISO-8601, or an
\* ISO-8601 string of a UTC instant
Deadlines ==
    {[kind |-> "absent"], [kind |-> "malformed"]}
        \cup {[kind |-> "iso", wall |-> t] : t \in Times}

Params == {"p1"}

Events ==
    [function_name : FunctionNames, delay : Delays, deadline : Deadlines,
     function_param : Params]

---------------------------------------------------------------------------
(* dispatcher.py *)

\* LocalFileScheduleLoader returns {} for a missing file,
\* GoogleCloudStorageScheduleLoader raises for a missing object
load_schedule(location, blob) ==
    IF location = "CLOUD"
    THEN IF blob.exists THEN Return(blob.doc) ELSE Raise("NotFound")
    ELSE IF ~blob.exists THEN Return(<<>>)
    ELSE IF "doc" \in DOMAIN blob THEN Return(blob.doc)
    ELSE Raise("JSONDecodeError")


\* what get_loader().load_schedule(function_name) can give
Reads == {load_schedule(location, blob) :
            location \in Locations, blob \in Blobs}

normalize_to_utc(dt_str) ==
    IF ~dt_str.aware THEN dt_str.wall ELSE dt_str.wall - dt_str.off

RECURSIVE NormalizeAll(_)
NormalizeAll(recs) ==
    IF recs = <<>> THEN <<>>
    ELSE Append(NormalizeAll(Front(recs)),
                [recs[Len(recs)] EXCEPT !.datetime = normalize_to_utc(@)])

\* a window with no lower end: every slot up to the deadline
UpToDeadline(r, deadline, clock) == r.datetime <= deadline

\* a slot of the window: from the start of the current hour to the deadline
InWindow(r, deadline, clock) ==
    r.datetime <= deadline /\ r.datetime >= HourStart(clock)

\* the earliest slot with its own datetime
EarliestUnchanged(recommendations, deadline) == recommendations[1]

\* rule (a): the earliest slot, at the deadline
EarliestAtDeadline(recommendations, deadline) ==
    [recommendations[1] EXCEPT !.datetime = deadline]

\* the last slot at the deadline itself, minutes kept
LastAtDeadline(recommendations, deadline) ==
    [recommendations[Len(recommendations)] EXCEPT !.datetime = deadline]

\* rule (c): the last slot, at the hour of the deadline
LastAtDeadlineHour(recommendations, deadline) ==
    [recommendations[Len(recommendations)]
        EXCEPT !.datetime = HourStart(deadline)]

\* schedule is what load_schedule gave
filter_schedule(schedule, deadline, clock) ==
    IF schedule.kind = "raise" THEN schedule
    ELSE IF "recommendations" \notin DOMAIN schedule.value
    THEN Raise("KeyError")
    ELSE
      LET recommendations ==
              SortByDatetime(NormalizeAll(schedule.value.recommendations))
          filtered_recommendations ==
              SelectSeq(recommendations,
                        LAMBDA r : InWindow(r, deadline, clock))
      IN IF Len(recommendations) = 0 THEN Raise("IndexError")
         ELSE IF deadline < recommendations[1].datetime
         THEN Return(EarliestAtDeadline(recommendations, deadline))
         ELSE IF filtered_recommendations = <<>>
         THEN Return(LastAtDeadlineHour(recommendations, deadline))
         ELSE Return(SortByPriority(filtered_recommendations)[1])

\* optimal_slot["delay"] = d
WithDelay(slot, d) ==
    [k \in DOMAIN slot \cup {"delay"} |->
        IF k = "delay" THEN d ELSE slot[k]]

\* the deadline is the present instant or in the past
DeadlinePassedOrNow(deadline, clock) == deadline <= clock

DeadlinePassed(deadline, clock) == deadline < clock

\* deadline is [given |-> FALSE] for None
find_optimal_slot(schedule, deadline, clock) ==
    IF ~deadline.given
    THEN LET r == filter_schedule(schedule, clock, clock)
         IN IF r.kind = "raise" THEN r
            ELSE Return(WithDelay(r.value, "false"))
    ELSE IF DeadlinePassed(deadline.t, clock)
    THEN LET r == filter_schedule(schedule, clock, clock)
         IN IF r.kind = "raise"
            THEN Return([statusCode |-> 404, status |-> "failed",
                         message |-> r.exc])
            ELSE Return(WithDelay(r.value, "false"))
    ELSE LET r == filter_schedule(schedule, deadline.t, clock)
         IN IF r.kind = "raise" THEN r
            ELSE Return(WithDelay(r.value, "true"))

\* the task is scheduled at the start of the hour of target_time
add_to_task_queue_at_hour(function_url, function_param, target_time) ==
    [http_method |-> "POST", url |-> function_url,
     body |-> JsonDumps(function_param),
     schedule_time |-> HourStart(target_time)]

\* the task handed to create_task
add_to_task_queue(function_url, function_param, target_time) ==
    [http_method |-> "POST", url |-> function_url,
     body |-> JsonDumps(function_param), schedule_time |-> target_time]

\* the keys of slot the response is built from
SlotKeys ==
    {"region", "datetime", "delay", "priority", "carbon_intensity",
     "function_url"}

\* the outcome of the call and the tasks it created
schedule_function(slot, function_name, function_param, md) ==
    IF DOMAIN slot = {}
    THEN [outcome |->
              Return([statusCode |-> 404, status |-> "failed",
                      message |-> "No suitable slot found before deadline."]),
          created |-> <<>>]
    ELSE IF ~({"region", "datetime"} \subseteq DOMAIN slot)
    THEN [outcome |-> Raise("KeyError"), created |-> <<>>]
    ELSE IF md = "CLOUD" /\ "function_url" \notin DOMAIN slot
    THEN [outcome |-> Raise("KeyError"), created |-> <<>>]
    ELSE
      LET created ==
              IF md = "CLOUD"
              THEN <<add_to_task_queue(slot.function_url, function_param,
                                       slot.datetime)>>
              ELSE <<>>
      IN IF ~(SlotKeys \subseteq DOMAIN slot)
         THEN [outcome |-> Raise("KeyError"), created |-> created]
         ELSE [outcome |->
                   Return([statusCode |-> 200, status |-> "scheduled",
                           function |-> function_name,
                           delay |-> slot.delay,
                           target_region |-> slot.region,
                           target_time |-> slot.datetime,
                           priority |-> slot.priority,
                           carbon_intensity |-> slot.carbon_intensity,
                           function_url |-> slot.function_url]),
               created |-> created]

\* an early return of handler: nothing read, nothing enqueued
Rejected(msg) ==
    [outcome |-> Return([statusCode |-> 400, error |-> msg]),
     created |-> <<>>, loads |-> 0]

\* result = find_optimal_slot(...); return schedule_function(result, ...)
Dispatch(e, deadline, clock, md, schedule) ==
    LET result == find_optimal_slot(schedule, deadline, clock)
    IN IF result.kind = "raise"
       THEN [outcome |-> result, created |-> <<>>, loads |-> 1]
       ELSE LET s == schedule_function(result.value, e.function_name,
                                       e.function_param, md)
            IN [outcome |-> s.outcome, created |-> s.created, loads |-> 1]

\* delay says "false" only when no deadline comes with it
ImmediateWithoutDeadline(e) ==
    e.delay # None /\ Lower(e.delay) = "false" /\ e.deadline.kind = "absent"

\* delay is given and says "false"
Immediate(e) == e.delay # None /\ Lower(e.delay) = "false"

\* a parser that takes any string, reading what it cannot parse as instant 0
fromisoformatLenient(deadline_str) ==
    IF deadline_str.kind = "iso" THEN Return(deadline_str.wall)
    ELSE Return(0)

\* datetime.fromisoformat(deadline_str).replace(tzinfo=timezone.utc)
fromisoformat(deadline_str) ==
    IF deadline_str.kind = "iso" THEN Return(deadline_str.wall)
    ELSE Raise("ValueError")

\* schedule is what load_schedule gives when handler gets to call it
handler(e, clock, md, schedule) ==
    IF e.function_name = None \/ e.function_name = ""
    THEN Rejected("Missing 'function_name'")
    ELSE IF Immediate(e)
    THEN Dispatch(e, [given |-> FALSE], clock, md, schedule)
    ELSE IF e.delay # None /\ Lower(e.delay) # "true"
    THEN Rejected("Delay must be 'true' or 'false'")
    ELSE IF e.deadline.kind = "absent"
    THEN Rejected("Delay was true but no deadline was given")
    ELSE LET deadline_dt == fromisoformat(e.deadline)
         IN IF deadline_dt.kind = "raise"
            THEN Rejected("Deadline has invalid format. Use ISO 8601.")
            ELSE Dispatch(e, [given |-> TRUE, t |-> deadline_dt.value],
                          clock, md, schedule)

---------------------------------------------------------------------------
(* agent.py: static configuration, function metadata, metadata hash        *)
(*                                                                         *)
(* The planner's instants count half days, so that timedelta.days of a     *)
(* difference d is d \div 2 and an age of 7 days and 12 hours is 15.       *)

Fns == <<"A", "B">>

FnSet == {Fns[i] : i \in 1..Len(Fns)}

\* static_config.json, "regions"; the transfer price in hundredths of a USD
StaticRegions ==
    [r \in {"europe-west1", "europe-north1", "us-east1"} |->
        CASE r = "europe-west1" ->
                 [continent |-> "europe", gpu_available |-> TRUE,
                  data_transfer_cost_per_gb_usd |-> 2]
          [] r = "europe-north1" ->
                 [continent |-> "europe", gpu_available |-> FALSE,
                  data_transfer_cost_per_gb_usd |-> 5]
          [] r = "us-east1" ->
                 [continent |-> "north-america", gpu_available |-> TRUE,
                  data_transfer_cost_per_gb_usd |-> 1]]

\* the iteration order of static_config["regions"]
RegionOrder == <<"europe-north1", "europe-west1", "us-east1">>

RegionCodes == DOMAIN StaticRegions

\* region_code.startswith("europe-")
StartsWithEurope(r) == r \in {"europe-west1", "europe-north1"}

\* regions.get(region_code, {})
get_region_info(region_code) ==
    IF region_code \in RegionCodes THEN StaticRegions[region_code] ELSE <<>>

\* d.get(k, default) on a record
Get(d, k, default) == IF k \in DOMAIN d THEN d[k] ELSE default

Range(s) == {s[i] : i \in 1..Len(s)}

\* position of a region code in the lexicographic order of the codes
CodeOrder(r) == CHOOSE i \in 1..Len(RegionOrder) : RegionOrder[i] = r

\* sorted(allowed_regions)
RECURSIVE Sorted(_)
Sorted(s) ==
    IF s = <<>> THEN <<>>
    ELSE LET sorted == Sorted(Front(s))
             x == s[Len(s)]
         IN InsertAfter(sorted, x,
                Cardinality({i \in 1..Len(sorted) :
                                CodeOrder(sorted[i]) <= CodeOrder(x)}))

\* the optional number vcpus: None is <<>>, the number n is <<n>>; the data
\* sizes are whole GB
METADATA_DEFAULTS ==
    [runtime_ms |-> 1000, memory_mb |-> 512, data_input_gb |-> 0,
     data_output_gb |-> 0, source_location |-> "us-east1",
     invocations_per_day |-> 1, priority |-> "balanced",
     latency_important |-> FALSE, gpu_required |-> FALSE, vcpus |-> <<>>,
     allowed_regions |-> <<>>, allow_schedule_caching |-> TRUE]

\* {**METADATA_DEFAULTS, **metadata}
apply_defaults(metadata) ==
    [k \in DOMAIN METADATA_DEFAULTS \cup DOMAIN metadata |->
        IF k \in DOMAIN metadata THEN metadata[k] ELSE METADATA_DEFAULTS[k]]

\* a hash whose input lists allowed_regions as given
hash_of_unsorted(metadata) ==
    <<"sha256",
      [k \in DOMAIN METADATA_DEFAULTS \ {"allow_schedule_caching"} |->
          metadata[k]]>>

\* sha256 of the JSON, keys sorted, of the eleven scheduling fields, with
\* allowed_regions sorted; allow_schedule_caching and code are left out.
\* The value is the input of sha256 itself.
compute_metadata_hash(metadata) ==
    <<"sha256",
      [runtime_ms |-> Get(metadata, "runtime_ms", None),
       memory_mb |-> Get(metadata, "memory_mb", None),
       data_input_gb |-> Get(metadata, "data_input_gb", None),
       data_output_gb |-> Get(metadata, "data_output_gb", None),
       source_location |-> Get(metadata, "source_location", None),
       invocations_per_day |-> Get(metadata, "invocations_per_day", None),
       priority |-> Get(metadata, "priority", None),
       latency_important |-> Get(metadata, "latency_important", None),
       gpu_required |-> Get(metadata, "gpu_required", None),
       vcpus |-> Get(metadata, "vcpus", None),
       allowed_regions |-> Sorted(Get(metadata, "allowed_regions", <<>>))]>>

\* sha256 of code.strip()
compute_code_hash(code) == <<"sha256", code>>

MAX_FORECAST_AGE_DAYS == 7

\* timedelta.days
Days(delta) == delta \div 2

\* (datetime.now() - created_at).days
AgeDays(created_at, clock) == Days(clock - created_at)

Absent == [exists |-> FALSE]

\* is_cached_schedule_valid: TRUE with the cached schedule, or FALSE
is_cached_schedule_valid(stored, function_metadata, clock) ==
    IF ~function_metadata.allow_schedule_caching THEN FALSE
    ELSE IF ~stored.exists THEN FALSE
    ELSE IF "metadata_hash" \notin DOMAIN Get(stored.doc, "metadata", <<>>)
    THEN FALSE
    ELSE IF stored.doc.metadata.metadata_hash
               # compute_metadata_hash(function_metadata)
    THEN FALSE
    ELSE IF "created_at" \notin DOMAIN Get(stored.doc, "metadata", <<>>)
    THEN FALSE
    ELSE AgeDays(stored.doc.metadata.created_at, clock)
             <= MAX_FORECAST_AGE_DAYS

---------------------------------------------------------------------------
(* agent.py: run_scheduler, steps 3 to 5                                   *)

SameContinent(r, source_continent) ==
    Get(get_region_info(r), "continent", None) = source_continent

GpuAvailable(r) == Get(get_region_info(r), "gpu_available", FALSE)

\* Step 3 for one function: its allowed_regions after the latency filter,
\* and the regions it adds to all_allowed_regions
LatencyFilter(func_metadata) ==
    LET allowed_regions == func_metadata.allowed_regions
        source_continent ==
            Get(get_region_info(func_metadata.source_location),
                "continent", "north-america")
        filtered_regions ==
            SelectSeq(allowed_regions,
                   LAMBDA r : SameContinent(r, source_continent))
        same_continent_regions ==
            SelectSeq(RegionOrder, LAMBDA r : SameContinent(r, source_continent))
    IN IF func_metadata.latency_important
       THEN IF allowed_regions # <<>>
            THEN [allowed_regions |-> filtered_regions,
                  added |-> Range(filtered_regions)]
            ELSE [allowed_regions |-> same_continent_regions,
                  added |-> Range(same_continent_regions)]
       ELSE [allowed_regions |-> allowed_regions,
             added |-> Range(allowed_regions)]

\* a GPU filter that also takes the regions it drops out of the union
GpuFilterShrinking(func_metadata, after_latency) ==
    LET current_regions == after_latency.allowed_regions
        all_gpu_regions == SelectSeq(RegionOrder, GpuAvailable)
    IN IF ~func_metadata.gpu_required THEN after_latency
       ELSE IF current_regions # <<>>
       THEN [allowed_regions |-> SelectSeq(current_regions, GpuAvailable),
             added |-> {r \in after_latency.added : GpuAvailable(r)}]
       ELSE [allowed_regions |-> all_gpu_regions,
             added |-> after_latency.added \cup Range(all_gpu_regions)]

\* the GPU filter of step 3, applied after the latency filter
GpuFilter(func_metadata, after_latency) ==
    LET current_regions == after_latency.allowed_regions
        all_gpu_regions == SelectSeq(RegionOrder, GpuAvailable)
    IN IF ~func_metadata.gpu_required THEN after_latency
       ELSE IF current_regions # <<>>
       THEN [allowed_regions |-> SelectSeq(current_regions, GpuAvailable),
             added |-> after_latency.added]
       ELSE [allowed_regions |-> all_gpu_regions,
             added |-> after_latency.added \cup Range(all_gpu_regions)]

AssembleRegions(func_metadata) ==
    GpuFilter(func_metadata, LatencyFilter(func_metadata))

\* the regions get_carbon_forecasts_all_regions asks Electricity Maps for
RequestedRegions(all_allowed_regions) ==
    IF all_allowed_regions # {}
    THEN all_allowed_regions \cap RegionCodes
    ELSE {r \in RegionCodes : StartsWithEurope(r)}

\* get_carbon_forecasts_all_regions; failing are the zones whose fetch fails
get_carbon_forecasts_all_regions(all_allowed_regions, failing) ==
    LET forecasts == RequestedRegions(all_allowed_regions) \ failing
    IN IF forecasts = {}
       THEN Raise("Failed to fetch forecasts for all regions")
       ELSE Return([forecasts |-> forecasts,
                    failed_regions |->
                        RequestedRegions(all_allowed_regions) \cap failing])

\* Step 5: the forecasts handed to run_scheduler_for_function
filtered_forecasts(function_metadata, carbon_forecasts) ==
    IF function_metadata.allowed_regions # <<>>
    THEN carbon_forecasts \cap Range(function_metadata.allowed_regions)
    ELSE carbon_forecasts

\* a datetime string: "YYYY-MM-DD HH:MM" (std) or "YYYY-MM-DDTHH:MM:SS" (iso)
DateString(fmt, day, hour) == [fmt |-> fmt, day |-> day, hour |-> hour]

\* datetime.strptime(dt_str, "%Y-%m-%d %H:%M")
strptime(dt_str) ==
    IF dt_str.fmt = "std" THEN Return([day |-> dt_str.day, hour |-> dt_str.hour])
    ELSE Raise("ValueError")

\* a refresh that keeps the date of the stored recommendation
RestampKeepingDate(original_dt, today) ==
    DateString("std", original_dt.day, original_dt.hour)

\* datetime.combine(today, original_dt.time()).strftime("%Y-%m-%d %H:%M")
Restamp(original_dt, today) == DateString("std", today, original_dt.hour)

\* the loop over cached_schedule["recommendations"]: the list with the dates
\* of today, or the ValueError of strptime
RECURSIVE RestampAll(_, _)
RestampAll(recs, today) ==
    IF recs = <<>> THEN Return(<<>>)
    ELSE LET head == RestampAll(Front(recs), today)
             rec == recs[Len(recs)]
         IN IF head.kind = "raise" THEN head
            ELSE IF "datetime" \notin DOMAIN rec
            THEN Return(Append(head.value, rec))
            ELSE LET original_dt == strptime(rec.datetime)
                 IN IF original_dt.kind = "raise" THEN original_dt
                    ELSE Return(Append(head.value,
                            [rec EXCEPT !.datetime =
                                Restamp(original_dt.value, today)]))

\* a record with key k set to v
With(d, k, v) ==
    [x \in DOMAIN d \cup {k} |-> IF x = k THEN v ELSE d[x]]

\* the refresh of a cached schedule (both paths of run_scheduler)
RefreshCached(cached_schedule, clock) ==
    LET recs == IF "recommendations" \in DOMAIN cached_schedule
                THEN RestampAll(cached_schedule.recommendations, Days(clock))
                ELSE Return(<<>>)
        stamped == IF "recommendations" \in DOMAIN cached_schedule
                   THEN With(cached_schedule, "recommendations", recs.value)
                   ELSE cached_schedule
    IN IF recs.kind = "raise" THEN recs
       ELSE Return(With(stamped, "metadata",
                        With(stamped.metadata, "generated_at", clock)))

\* a schedule that stores the hash of the metadata it was ranked with,
\* the allowed regions as the latency and GPU filters left them
schedule_hashing_filtered(answer, function_metadata, carbon_forecasts, metadata_hash, clock) ==
    IF carbon_forecasts = {} THEN Raise("StopIteration")
    ELSE IF answer.kind = "raise" THEN answer
    ELSE Return(With(answer.value, "metadata",
                     [generated_at |-> clock,
                      function_metadata |-> function_metadata,
                      regions_used |-> carbon_forecasts,
                      metadata_hash |->
                          compute_metadata_hash(function_metadata),
                      created_at |-> clock]))

\* run_scheduler_for_function: the document written, or the exception.
\* answer is what get_gemini_schedule gives for the prompt.
run_scheduler_for_function(answer, function_metadata, carbon_forecasts, metadata_hash, clock) ==
    IF carbon_forecasts = {} THEN Raise("StopIteration")
    ELSE IF answer.kind = "raise" THEN answer
    ELSE Return(With(answer.value, "metadata",
                     [generated_at |-> clock,
                      function_metadata |-> function_metadata,
                      regions_used |-> carbon_forecasts,
                      metadata_hash |-> metadata_hash,
                      created_at |-> clock]))

---------------------------------------------------------------------------
(* agent.py: deploy_functions_to_optimal_regions, one function of the loop *)

\* the URL the deploy contract reports for a service
UrlOf(func_name, region) == <<"https", func_name, region>>

\* a deployment step that leaves the recommendations as they are
no_injection(schedule, function_url) == schedule

\* rec["function_url"] = function_url for every recommendation
inject_function_url_into_recommendations(schedule, function_url) ==
    IF "recommendations" \notin DOMAIN schedule THEN schedule
    ELSE With(schedule, "recommendations",
              [i \in 1..Len(schedule.recommendations) |->
                  With(schedule.recommendations[i], "function_url",
                       function_url)])

\* the region of the recommendation listed first, whatever its priority
FirstListedRegion(recommendations) ==
    Get(recommendations[1], "region", "us-east1")

\* sorted(recommendations, key=priority)[0].get("region", "us-east1")
OptimalRegion(recommendations) ==
    Get(SortByPriority(recommendations)[1], "region", "us-east1")

\* schedule["deployment"] = {...}, function_url injected
WithDeployment(schedule, function_url, region, deployed_at) ==
    inject_function_url_into_recommendations(
        With(schedule, "deployment",
             [function_url |-> function_url, region |-> region,
              deployed_at |-> deployed_at]),
        function_url)

\* MCPClientSync.deploy_function: success with the URL, failure, or an
\* exception
deploy_function(func_name, region, deploy_outcome) ==
    CASE deploy_outcome = "success" ->
             Return([success |-> TRUE, function_url |-> UrlOf(func_name, region)])
      [] deploy_outcome = "failure" ->
             Return([success |-> FALSE, error |-> "deploy failed"])
      [] OTHER -> Raise("MCPError")

\* what one pass of the loop does; mcp_calls are the calls of the deploy
\* contract it made, each with its arguments and what it gave; written says
\* whether schedule_<fn> was written
Untouched(schedule, existing, result) ==
    [schedule |-> schedule, state |-> existing, result |-> result,
     written |-> FALSE, mcp_calls |-> <<>>]

\* a deployment step that writes the schedule with deployment data whether
\* or not the deployment succeeded
RedeployWritingAnyway(func_name, schedule, code, optimal_region, existing, reason, before, deploy_outcome, clock) ==
    LET deployed == deploy_function(func_name, optimal_region, deploy_outcome)
        succeeded == /\ deployed.kind = "return"
                     /\ Get(deployed.value, "success", FALSE) = TRUE
        function_url == UrlOf(func_name, optimal_region)
    IN [schedule |->
            WithDeployment(schedule, function_url, optimal_region, clock),
        state |-> IF succeeded
                  THEN [code_hash |-> compute_code_hash(code),
                        deployed_region |-> optimal_region,
                        function_url |-> function_url,
                        deployed_at |-> clock]
                  ELSE existing,
        result |-> IF succeeded
                   THEN [deployed |-> TRUE, reason |-> reason,
                         function_url |-> function_url,
                         region |-> optimal_region]
                   ELSE [deployed |-> FALSE, reason |-> "deployment_failed"],
        written |-> TRUE,
        mcp_calls |-> before \o <<<<"deploy_function", func_name,
                                    optimal_region, deployed>>>>]

\* the branch "if needs_deployment"; before are the calls already made
Redeploy(func_name, schedule, code, optimal_region, existing, reason, before, deploy_outcome, clock) ==
    LET deployed == deploy_function(func_name, optimal_region, deploy_outcome)
        mcp_calls ==
            before \o <<<<"deploy_function", func_name, optimal_region,
                          deployed>>>>
        function_url == Get(deployed.value, "function_url", None)
    IN IF deployed.kind = "raise"
       THEN [schedule |-> schedule, state |-> existing,
             result |-> [deployed |-> FALSE, reason |-> "deployment_error"],
             written |-> FALSE, mcp_calls |-> mcp_calls]
       ELSE IF Get(deployed.value, "success", FALSE) # TRUE
       THEN [schedule |-> schedule, state |-> existing,
             result |-> [deployed |-> FALSE, reason |-> "deployment_failed"],
             written |-> FALSE, mcp_calls |-> mcp_calls]
       ELSE [schedule |->
                 WithDeployment(schedule, function_url, optimal_region, clock),
             state |-> [code_hash |-> compute_code_hash(code),
                        deployed_region |-> optimal_region,
                        function_url |-> function_url,
                        deployed_at |-> clock],
             result |-> [deployed |-> TRUE, reason |-> reason,
                         function_url |-> function_url,
                         region |-> optimal_region],
             written |-> TRUE, mcp_calls |-> mcp_calls]

\* the branch "already deployed and active"
AlreadyDeployed(func_name, schedule, existing, status_call) ==
    LET function_url == Get(existing, "function_url", None)
        existing_region == Get(existing, "deployed_region", None)
        stale == \/ "deployment" \notin DOMAIN schedule
                 \/ "function_url" \notin DOMAIN schedule.deployment
                 \/ schedule.deployment.function_url # function_url
    IN [schedule |->
            IF stale
            THEN WithDeployment(schedule, function_url, existing_region,
                                Get(existing, "deployed_at", None))
            ELSE schedule,
        state |-> existing,
        result |-> [deployed |-> FALSE, reason |-> "already_deployed",
                    function_url |-> function_url,
                    region |-> existing_region],
        written |-> stale, mcp_calls |-> status_call]

\* existing is deployment_state.get(func_name, {}); status is what
\* get_function_status gives and deploy_outcome how deploy_function ends,
\* when they are called
DeployFunction(func_name, schedule, func_metadata, existing, status, deploy_outcome, clock) ==
    LET code == Get(func_metadata, "code", None)
        recommendations == Get(schedule, "recommendations", <<>>)
        optimal_region == OptimalRegion(recommendations)
        existing_region == Get(existing, "deployed_region", None)
        status_call ==
            <<<<"get_function_status", func_name, existing_region, status>>>>
    IN IF "error" \in DOMAIN schedule
       THEN Untouched(schedule, existing,
                      [deployed |-> FALSE, reason |-> "schedule_error"])
       ELSE IF code = None
       THEN Untouched(schedule, existing,
                      [deployed |-> FALSE, reason |-> "no_code"])
       ELSE IF recommendations = <<>>
       THEN Untouched(schedule, existing,
                      [deployed |-> FALSE, reason |-> "no_recommendations"])
       ELSE IF "code_hash" \notin DOMAIN existing
       THEN Redeploy(func_name, schedule, code, optimal_region, existing,
                     "new_function", <<>>, deploy_outcome, clock)
       ELSE IF existing.code_hash # compute_code_hash(code)
       THEN Redeploy(func_name, schedule, code, optimal_region, existing,
                     "code_changed", <<>>, deploy_outcome, clock)
       ELSE IF existing_region # optimal_region
       THEN Redeploy(func_name, schedule, code, optimal_region, existing,
                     "region_changed", <<>>, deploy_outcome, clock)
       ELSE IF status.kind = "raise"
       THEN Redeploy(func_name, schedule, code, optimal_region, existing,
                     "status_check_failed", status_call, deploy_outcome, clock)
       ELSE IF Get(status.value, "exists", FALSE) = TRUE
                 /\ Get(status.value, "status", None) = "ACTIVE"
       THEN AlreadyDeployed(func_name, schedule, existing, status_call)
       ELSE Redeploy(func_name, schedule, code, optimal_region, existing,
                     "not_active", status_call, deploy_outcome, clock)

---------------------------------------------------------------------------
(* agent.py: the local variables of run_scheduler between its steps        *)

\* no run of the planner is in progress
NoRun ==
    [pc |-> "idle", path |-> None, error |-> None,
     functions_to_schedule |-> <<>>, metadata_hashes |-> <<>>,
     cached_functions |-> <<>>, functions_needing_schedule |-> <<>>,
     todo |-> <<>>, carbon_forecasts |-> {}, schedules |-> <<>>,
     order |-> <<>>, deployment_state |-> <<>>, deployment_results |-> <<>>]

---------------------------------------------------------------------------
(* The dispatcher as a state machine: the clock advances until the event   *)
(* arrives, and handler runs to completion on it.                          *)

NoEvent ==
    [function_name |-> None, delay |-> None,
     deadline |-> [kind |-> "absent"], function_param |-> "p1"]

NotLoaded == [calls |-> 0]

Init ==
    /\ now = 0
    /\ mode \in Modes
    /\ pc = "idle"
    /\ event = NoEvent
    /\ loaded = NotLoaded
    /\ outcome = [kind |-> "none"]
    /\ tasks = <<>>
    /\ wallclock = 0
    /\ metadata_file = <<>>
    /\ bucket = [f \in FnSet |-> Absent]
    /\ state_file = <<>>
    /\ run = NoRun
    /\ calls = <<>>

Tick ==
    /\ pc = "idle"
    /\ \E t \in Times :
          /\ t > now
          /\ \A u \in Times : u > now => t <= u
          /\ now' = t
    /\ UNCHANGED <<mode, pc, event, loaded, outcome, tasks>>
    /\ UNCHANGED planner_vars

\* One invocation of handler; schedule is what the bucket (or the local
\* directory) gives for schedule_<function_name> at that moment.
Handler(e, schedule) ==
    \E h \in {handler(e, now, mode, schedule)} :
       /\ pc' = "done"
       /\ event' = e
       /\ loaded' = IF h.loads = 0 THEN NotLoaded
                    ELSE [calls |-> h.loads, schedule |-> schedule]
       /\ outcome' = h.outcome
       /\ tasks' = tasks \o h.created
       /\ UNCHANGED <<now, mode>>
       /\ UNCHANGED planner_vars

\* An invocation that calls load_schedule is taken with every read; one that
\* returns without calling it is taken once, nothing being read.
ReadsOf(e) ==
    IF handler(e, now, mode, Raise("NotFound")).loads = 0
    THEN {Raise("NotFound")}
    ELSE Reads

Next ==
    \/ Tick
    \/ /\ pc = "idle"
       /\ \E e \in Events : \E schedule \in ReadsOf(e) : Handler(e, schedule)

Spec == Init /\ [][Next]_vars

---------------------------------------------------------------------------
(* A finished invocation in the words of section 4.5 of the specification *)

Done == pc = "done"

Response == outcome.value

Scheduled ==
    Done /\ outcome.kind = "return" /\ Response.statusCode = 200

SaysFalse(e) == e.delay \in {"false", "False"}

SaysTrueOrNothing(e) == e.delay \in {None, "true", "True"}

Named(e) == e.function_name \notin {None, ""}

PastDeadline(e) == e.deadline.kind = "iso" /\ e.deadline.wall < now

\* the deadline the selection works with: now for delay="false" and for a
\* deadline in the past
EffectiveDeadline ==
    IF SaysFalse(event) \/ event.deadline.kind # "iso" \/ PastDeadline(event)
    THEN now
    ELSE event.deadline.wall

\* the schedule was read and is a document
HasDocument ==
    /\ Done
    /\ loaded.calls = 1
    /\ loaded.schedule.kind = "return"
    /\ "recommendations" \in DOMAIN loaded.schedule.value

Stored == loaded.schedule.value.recommendations

HasSlots == HasDocument /\ Len(Stored) > 0

Utc(dt_str) == dt_str.wall - dt_str.off

\* the slots of the schedule as instants
Slots ==
    {[datetime |-> Utc(Stored[i].datetime), region |-> Stored[i].region,
      priority |-> Stored[i].priority] : i \in 1..Len(Stored)}

Earliest ==
    CHOOSE t \in {s.datetime : s \in Slots} :
        \A s \in Slots : t <= s.datetime

Latest ==
    CHOOSE t \in {s.datetime : s \in Slots} :
        \A s \in Slots : s.datetime <= t

Window ==
    {s \in Slots :
        HourStart(now) <= s.datetime /\ s.datetime <= EffectiveDeadline}

Selected(s) ==
    Response.target_region = s.region /\ Response.priority = s.priority

\* what handler gives for event e on the schedule that was read
Rerun(e, md, schedule) == handler(e, now, md, schedule)

Observed == [outcome |-> outcome, created |-> tasks, loads |-> loaded.calls]

---------------------------------------------------------------------------
\* C1: rule (d).  When the effective deadline is not earlier than the
\* earliest slot and some slot lies between the start of the current hour
\* and the deadline, the dispatcher returns a slot of that window with the
\* smallest priority number, the earlier one among equal priorities, and the
\* slot keeps its own datetime, region and priority.
C1_ArgminPriority ==
    (HasSlots /\ EffectiveDeadline >= Earliest /\ Window # {})
        => /\ Scheduled
           /\ \E s \in Window :
                 /\ Selected(s)
                 /\ Response.target_time = s.datetime
                 /\ \A q \in Window :
                       \/ s.priority < q.priority
                       \/ s.priority = q.priority /\ s.datetime <= q.datetime

\* a later slot of better priority is preferred to an earlier one
C1_Witness ==
    /\ HasSlots /\ EffectiveDeadline >= Earliest /\ Scheduled
    /\ \E a \in Window, b \in Window :
          /\ a.priority < b.priority /\ b.datetime < a.datetime
          /\ Selected(a) /\ Response.target_time = a.datetime

\* C2: rule (a).  When the effective deadline is strictly earlier than the
\* earliest slot, the dispatcher returns the region and priority of an
\* earliest slot and the deadline as its time, whatever the priorities of
\* the other slots are.
C2_BeforeSchedule ==
    (HasSlots /\ EffectiveDeadline < Earliest)
        => /\ Scheduled
           /\ Response.target_time = EffectiveDeadline
           /\ \E s \in Slots : s.datetime = Earliest /\ Selected(s)

\* the earliest slot is chosen although a later slot has a better priority
C2_Witness ==
    /\ HasSlots /\ EffectiveDeadline < Earliest /\ Scheduled
    /\ Response.target_time # Earliest
    /\ \E q \in Slots :
          q.priority < Response.priority /\ q.datetime > Earliest

\* C3: rule (c).  When the effective deadline is not earlier than the
\* earliest slot and no slot lies in the window, the dispatcher returns the
\* region and priority of a slot of the latest datetime, and the hour of the
\* deadline as its time.
C3_AfterSchedule ==
    (HasSlots /\ EffectiveDeadline >= Earliest /\ Window = {})
        => /\ Scheduled
           /\ Response.target_time = HourStart(EffectiveDeadline)
           /\ \E s \in Slots : s.datetime = Latest /\ Selected(s)

\* the deadline was cut to its hour and the last slot is not the best one
C3_Witness ==
    /\ HasSlots /\ EffectiveDeadline >= Earliest /\ Window = {} /\ Scheduled
    /\ Response.target_time # EffectiveDeadline
    /\ Response.target_time # Latest
    /\ \E q \in Slots : q.priority < Response.priority

\* C4: delay "false", in any case of letters, wins over the deadline:
\* whatever deadline the request carries, absent, malformed, past or future,
\* the schedule is read once and the outcome and the tasks are those of the
\* same request with no deadline at all; a scheduled slot is labelled
\* "false".
C4_DelayFalseWins ==
    (Done /\ Named(event) /\ SaysFalse(event))
        => /\ loaded.calls = 1
           /\ Rerun([event EXCEPT !.deadline = [kind |-> "absent"]],
                    mode, loaded.schedule) = Observed
           /\ Scheduled => Response.delay = "false"

\* delay "false" with a malformed deadline is scheduled, and with delay
\* "true" and a future deadline the answer would have been another one
C4_Witness ==
    /\ Scheduled /\ SaysFalse(event)
    /\ event.deadline.kind = "malformed"
    /\ \E d \in Deadlines :
          /\ d.kind = "iso" /\ d.wall > now
          /\ Rerun([event EXCEPT !.delay = "true", !.deadline = d],
                   mode, loaded.schedule).outcome # outcome

C6_DelayLabel ==
    /\ Scheduled
          => /\ Response.delay \in {"true", "false"}
             /\ Response.delay = "false"
                   <=> (SaysFalse(event) \/ PastDeadline(event))
             /\ (~SaysFalse(event) /\ PastDeadline(event))
                   => Rerun([event EXCEPT !.delay = "false"], mode,
                            loaded.schedule).outcome = outcome
    /\ (HasSlots /\ PastDeadline(event)) => Scheduled

\* a deadline in the past was clamped, and a deadline equal to now was not
C6_Witness ==
    /\ Scheduled /\ SaysTrueOrNothing(event) /\ PastDeadline(event)
    /\ Response.delay = "false"
    /\ Response.target_time > event.deadline.wall

\* C7: for delay "false" the target time is the start of the current hour,
\* wherever the clock stands with respect to the slots of the schedule.
C7_HourAligned ==
    (Scheduled /\ SaysFalse(event))
        => Response.target_time = HourStart(now)

\* C8: a valid request whose schedule is missing, or has no slot, gets a
\* response of statusCode 404: handler neither raises nor returns 200.
C8_NotFound ==
    (Done /\ loaded.calls = 1 /\ ~HasSlots)
        => outcome.kind = "return" /\ Response.statusCode = 404

\* C9: the enqueue contract.  An invocation creates at most one task, and
\* one only in mode CLOUD with a slot selected: a POST to the function_url
\* of the selected slot with function_param as its body, scheduled at the
\* returned target time.  In mode CLOUD every selection is enqueued; in any
\* other mode the outcome is the one of mode CLOUD and no task is created.
C9_Enqueue ==
    /\ Len(tasks) <= 1
    /\ tasks # <<>>
          => /\ mode = "CLOUD" /\ Scheduled
             /\ tasks[1] = [http_method |-> "POST",
                            url |-> Response.function_url,
                            body |-> JsonDumps(event.function_param),
                            schedule_time |-> Response.target_time]
             /\ \E i \in 1..Len(Stored) :
                   /\ Stored[i].function_url = tasks[1].url
                   /\ Stored[i].region = Response.target_region
                   /\ Stored[i].priority = Response.priority
    /\ (Scheduled /\ mode = "CLOUD") => Len(tasks) = 1
    /\ (Done /\ loaded.calls = 1 /\ mode # "CLOUD")
          => /\ tasks = <<>>
             /\ Rerun(event, "CLOUD", loaded.schedule).outcome = outcome

\* a task scheduled at an overridden time that is not on the hour
C9_Witness ==
    /\ Scheduled /\ tasks # <<>>
    /\ tasks[1].schedule_time \notin {s.datetime : s \in Slots}
    /\ tasks[1].schedule_time # HourStart(tasks[1].schedule_time)

\* the stored list with the recommendations i and i+1 exchanged
Swapped(recs, i) ==
    SubSeq(recs, 1, i - 1) \o <<recs[i + 1], recs[i]>>
        \o SubSeq(recs, i + 2, Len(recs))

SameAfterSwap(i) ==
    Rerun(event, mode,
          Return([recommendations |-> Swapped(Stored, i)])).outcome = outcome

\* C10 as stated: the answer does not depend on the order in which the
\* recommendations are stored.
C10_AnyOrder ==
    HasSlots => \A i \in 1..(Len(Stored) - 1) : SameAfterSwap(i)

\* C10 as amended: the answer does not depend on the order in which
\* recommendations of different UTC datetimes are stored.
C10_OrderOfDistinctDatetimes ==
    HasSlots
        => \A i \in 1..(Len(Stored) - 1) :
              Utc(Stored[i].datetime) # Utc(Stored[i + 1].datetime)
                 => SameAfterSwap(i)

\* a schedule stored latest slot first, in another region, was dispatched
C10_Witness ==
    /\ HasSlots /\ Scheduled /\ Len(Stored) >= 2
    /\ Utc(Stored[1].datetime) > Utc(Stored[2].datetime)
    /\ Stored[1].region # Stored[2].region
    /\ Response.target_region = Stored[2].region

---------------------------------------------------------------------------
(* Inputs of a run of the planner                                          *)

\* an entry of "functions": a JSON object or a natural-language string
Object(v) == [kind |-> "object", value |-> v]

Text(t) == [kind |-> "text", text |-> t]

EntriesOfA ==
    {Object([allowed_regions |-> <<"europe-west1", "europe-north1">>,
             gpu_required |-> TRUE, code |-> "c1"]),
     Object([allowed_regions |-> <<"us-east1">>, latency_important |-> TRUE,
             source_location |-> "europe-west1", code |-> "c1"]),
     Object([allowed_regions |-> <<"europe-north1">>, gpu_required |-> TRUE,
             code |-> "c1"]),
     Object([code |-> "c1"]),
     Object([latency_important |-> TRUE, source_location |-> "europe-west1",
             code |-> "c1"]),
     Object([allow_schedule_caching |-> FALSE, code |-> "c1"]),
     Text("run A in europe-west1")}

EntriesOfB ==
    {Object([allowed_regions |-> <<"europe-north1">>, code |-> "c1"]),
     Object([gpu_required |-> TRUE]),
     Text("run B in europe-west1")}

MetadataFiles ==
    {[f \in FnSet |-> IF f = "A" THEN a ELSE b] :
        a \in EntriesOfA, b \in EntriesOfB}

\* parse_natural_language_request: the extracted metadata, or an exception
ParseOutcomes ==
    {Return([allowed_regions |-> <<"europe-west1">>]),
     Raise("ExtractionError")}

\* the hours of the forecast, standing for its 24 hours
ForecastHours == <<10, 18>>

\* the list an LLM answer carries: one recommendation per forecast hour
RecsOf(fmt, day, priorities, regions) ==
    [i \in 1..Len(ForecastHours) |->
        [datetime |-> DateString(fmt, day, ForecastHours[i]),
         priority |-> priorities[i], region |-> regions[i]]]

\* get_gemini_schedule: the parsed JSON of the answer, or the exception of
\* the API call or of json.loads
Answers(day) ==
    {Return([recommendations |->
                RecsOf("std", day, <<1, 2>>,
                       <<"europe-west1", "europe-north1">>)]),
     Return([recommendations |->
                RecsOf("iso", day, <<1, 1>>, <<"us-east1", "us-east1">>)]),
     Return([recommendations |-> <<>>]),
     Raise("APIError"),
     Raise("JSONDecodeError")}

\* the zones whose forecast request fails
FetchFailures == {{}, {"europe-north1"}, RegionCodes}

\* MCPClientSync.get_function_status
StatusOutcomes ==
    {Return([exists |-> TRUE, status |-> "ACTIVE"]),
     Return([exists |-> TRUE, status |-> "FAILED"]),
     Return([exists |-> FALSE, status |-> "NOT_FOUND"]),
     Raise("MCPError")}

DeployOutcomes == {"success", "failure", "raise"}

\* an entry of deployment_state.json as a successful deployment writes it
StateEntry(func_name, code, region, deployed_at) ==
    [code_hash |-> compute_code_hash(code), deployed_region |-> region,
     function_url |-> UrlOf(func_name, region), deployed_at |-> deployed_at]

\* deployment_state.json before the run
StateFiles ==
    {<<>>,
     [f \in FnSet |-> StateEntry(f, "c1", "europe-west1", 1)],
     [f \in {"A"} |-> StateEntry(f, "c1", "europe-north1", 1)],
     [f \in FnSet |-> StateEntry(f, IF f = "A" THEN "c0" ELSE "c1",
                                 "europe-west1", 1)]}

\* schedule_<fn>.json as an earlier run left it: generated at created_at for
\* the metadata of hash metadata_hash, europe-west1 ranked first, and
\* carrying the deployment of the state entry when that is in europe-west1
StoredDoc(func_name, metadata_hash, created_at, fmt, state) ==
    LET doc == [recommendations |->
                    RecsOf(fmt, Days(created_at), <<2, 1>>,
                           <<"europe-north1", "europe-west1">>),
                metadata |->
                    [generated_at |-> created_at,
                     regions_used |-> {"europe-north1", "europe-west1"},
                     metadata_hash |-> metadata_hash,
                     created_at |-> created_at]]
        entry == Get(state, func_name, <<>>)
    IN [exists |-> TRUE,
        doc |-> IF Get(entry, "deployed_region", None) = "europe-west1"
                THEN WithDeployment(doc, entry.function_url,
                                    entry.deployed_region, entry.deployed_at)
                ELSE doc]

\* the ages, in half days, of the stored schedules: 3 days, 7 days and 12
\* hours, 8 days
Ages == {6, 15, 16}

\* the instant of the run: the afternoon of day 10
RunInstants == {21}

\* the metadata a function is planned with when its entry is read
PlannedMetadata(entry) ==
    IF entry.kind = "object" THEN apply_defaults(entry.value)
    ELSE apply_defaults([allowed_regions |-> <<"europe-west1">>])

\* the hash of a schedule generated for other metadata
OtherHash ==
    compute_metadata_hash(
        apply_defaults([allowed_regions |-> <<"us-east1", "europe-west1">>]))

StoredFor(func_name, entry, clock, state) ==
    LET h == compute_metadata_hash(PlannedMetadata(entry))
    IN {Absent}
         \cup {StoredDoc(func_name, h, clock - age, "std", state) :
                  age \in Ages}
         \cup {StoredDoc(func_name, OtherHash, clock - 6, "std", state),
               StoredDoc(func_name, h, clock - 6, "iso", state)}

---------------------------------------------------------------------------
(* run_scheduler as a state machine: one action per step of the run, the   *)
(* steps being separated by the calls of the LLM, of Electricity Maps and  *)
(* of the deploy contract.                                                 *)

PlanInit ==
    /\ now = 0
    /\ mode = "CLOUD"
    /\ pc = "idle"
    /\ event = NoEvent
    /\ loaded = NotLoaded
    /\ outcome = [kind |-> "none"]
    /\ tasks = <<>>
    /\ wallclock \in RunInstants
    /\ metadata_file \in MetadataFiles
    /\ state_file \in StateFiles
    /\ bucket \in [FnSet -> UNION {StoredFor(f, metadata_file[f], wallclock,
                                             state_file) : f \in FnSet}]
    /\ \A f \in FnSet :
          bucket[f] \in StoredFor(f, metadata_file[f], wallclock, state_file)
    /\ run = NoRun
    /\ calls = <<>>

\* the functions of names, in the order of function_metadata.json
InOrder(names) == SelectSeq(Fns, LAMBDA f : f \in names)

\* Step 1.5 for one entry
ProcessEntry(func_name, func_data, parse) ==
    IF func_data.kind = "text"
    THEN IF parse.kind = "raise"
         THEN Raise("Could not parse natural language description")
         ELSE Return(apply_defaults(
                         With(parse.value, "function_id", func_name)))
    ELSE Return(apply_defaults(func_data.value))

\* write_to_storage(data, filename), as an entry of calls
Write(filename, data) == <<"write", filename, data>>

\* the run passes to deploy_functions_to_optimal_regions, which loads
\* deployment_state.json first
EnterDeploy(r) ==
    [r EXCEPT !.pc = "deploy", !.todo = r.order,
              !.deployment_state = state_file]

\* the run passes to the loop over functions_needing_schedule
EnterRank(r) ==
    IF r.functions_needing_schedule = <<>> THEN EnterDeploy(r)
    ELSE [r EXCEPT !.pc = "rank", !.todo = r.functions_needing_schedule]

\* the run passes to the loop over cached_functions
EnterRefresh(r) ==
    IF DOMAIN r.cached_functions = {} THEN EnterRank(r)
    ELSE [r EXCEPT !.pc = "refresh",
                   !.todo = InOrder(DOMAIN r.cached_functions)]

\* a run that fetches the forecasts whether or not a function needs them
AlwaysFetch(r) ==
    [r EXCEPT !.pc = "assemble",
              !.path = IF r.functions_needing_schedule = <<>>
                       THEN "cached" ELSE "mixed"]

\* "if not functions_needing_schedule": the run goes to the refresh of the
\* cached schedules and then to deployment, or to steps 3 to 6
AfterCacheCheck(r) ==
    IF r.functions_needing_schedule = <<>>
    THEN EnterRefresh([r EXCEPT !.path = "cached"])
    ELSE [r EXCEPT !.path = "mixed", !.pc = "assemble"]

\* Steps 1 to 2: the metadata is loaded, every entry processed, the hashes
\* computed and the cache of every function checked
StartRun(parses) ==
    LET processed ==
            [f \in FnSet |-> ProcessEntry(f, metadata_file[f], parses[f])]
        failed == {i \in 1..Len(Fns) : processed[Fns[i]].kind = "raise"}
        reached == {i \in 1..Len(Fns) : \A j \in failed : i <= j}
        extractions ==
            [i \in 1..Len(Fns) |->
                <<"extract", Fns[i], metadata_file[Fns[i]]>>]
        made == SelectSeq(extractions,
                    LAMBDA c : /\ c[3].kind = "text"
                               /\ \E i \in reached : Fns[i] = c[2])
        functions_to_schedule == [f \in FnSet |-> processed[f].value]
        valid == {f \in FnSet :
                     is_cached_schedule_valid(bucket[f],
                         functions_to_schedule[f], wallclock)}
        started ==
            [NoRun EXCEPT
                !.functions_to_schedule = functions_to_schedule,
                !.metadata_hashes =
                    [f \in FnSet |->
                        compute_metadata_hash(functions_to_schedule[f])],
                !.cached_functions = [f \in valid |-> bucket[f].doc],
                !.functions_needing_schedule = InOrder(FnSet \ valid)]
    IN /\ run.pc = "idle"
       /\ calls' = calls \o made
       /\ run' = IF failed # {}
                 THEN [NoRun EXCEPT !.pc = "failed",
                                    !.error = "ExtractionError"]
                 ELSE AfterCacheCheck(started)
       /\ UNCHANGED <<wallclock, metadata_file, bucket, state_file>>

\* Steps 3 and 4: the regions of the functions needing a schedule are
\* assembled, the forecasts fetched and carbon_forecasts.json written
FetchForecasts(failing) ==
    LET needing == Range(run.functions_needing_schedule)
        assembled ==
            [f \in needing |-> AssembleRegions(run.functions_to_schedule[f])]
        all_allowed_regions == UNION {assembled[f].added : f \in needing}
        functions_to_schedule ==
            [f \in FnSet |->
                IF f \in needing
                THEN [run.functions_to_schedule[f] EXCEPT
                         !.allowed_regions = assembled[f].allowed_regions]
                ELSE run.functions_to_schedule[f]]
        fetched == get_carbon_forecasts_all_regions(all_allowed_regions,
                                                    failing)
        fetch == <<"fetch", "forecasts", RequestedRegions(all_allowed_regions)>>
    IN /\ run.pc = "assemble"
       /\ IF fetched.kind = "raise"
          THEN /\ run' = [run EXCEPT
                             !.pc = "failed", !.error = "FetchError",
                             !.functions_to_schedule = functions_to_schedule]
               /\ calls' = Append(calls, fetch)
          ELSE /\ run' = EnterRefresh(
                             [run EXCEPT
                                 !.functions_to_schedule =
                                     functions_to_schedule,
                                 !.carbon_forecasts =
                                     fetched.value.forecasts])
               /\ calls' = calls \o
                             <<fetch,
                               Write("carbon_forecasts.json", fetched.value)>>
       /\ UNCHANGED <<wallclock, metadata_file, bucket, state_file>>

\* the refresh of the next cached schedule: its dates become today's, it is
\* written back; the ValueError of strptime ends the run
Refresh ==
    LET func_name == Head(run.todo)
        refreshed == RefreshCached(run.cached_functions[func_name], wallclock)
        rest == Tail(run.todo)
        after == [run EXCEPT
                     !.schedules = With(run.schedules, func_name,
                                        refreshed.value),
                     !.order = Append(run.order, func_name),
                     !.todo = rest]
    IN /\ run.pc = "refresh"
       /\ IF refreshed.kind = "raise"
          THEN /\ run' = [run EXCEPT !.pc = "failed", !.error = "ValueError"]
               /\ UNCHANGED <<bucket, calls>>
          ELSE /\ bucket' = [bucket EXCEPT ![func_name] =
                                [exists |-> TRUE, doc |-> refreshed.value]]
               /\ calls' = Append(calls, Write(func_name, refreshed.value))
               /\ run' = IF rest # <<>> THEN after
                         ELSE IF run.path = "cached" THEN EnterDeploy(after)
                         ELSE EnterRank(after)
       /\ UNCHANGED <<wallclock, metadata_file, state_file>>

\* Step 5 for the next function needing a schedule: ranked by the LLM over
\* its filtered forecasts, the answer written; an exception becomes the
\* schedule {"error": ...}
RankOne(answer) ==
    LET function_name == Head(run.todo)
        forecasts ==
            filtered_forecasts(run.functions_to_schedule[function_name],
                               run.carbon_forecasts)
        generated ==
            run_scheduler_for_function(answer,
                run.functions_to_schedule[function_name], forecasts,
                run.metadata_hashes[function_name], wallclock)
        asked == IF forecasts = {} THEN <<>>
                 ELSE <<<<"rank", function_name, forecasts>>>>
        after == [run EXCEPT
                     !.schedules =
                         With(run.schedules, function_name,
                              IF generated.kind = "raise"
                              THEN [error |-> generated.exc]
                              ELSE generated.value),
                     !.order = Append(run.order, function_name),
                     !.todo = Tail(run.todo)]
    IN /\ run.pc = "rank"
       /\ IF generated.kind = "raise"
          THEN /\ calls' = calls \o asked
               /\ UNCHANGED bucket
          ELSE /\ calls' = calls \o asked \o
                              <<Write(function_name, generated.value)>>
               /\ bucket' = [bucket EXCEPT ![function_name] =
                                [exists |-> TRUE, doc |-> generated.value]]
       /\ run' = IF after.todo # <<>> THEN after ELSE EnterDeploy(after)
       /\ UNCHANGED <<wallclock, metadata_file, state_file>>

\* one pass of the loop of deploy_functions_to_optimal_regions
DeployOne(status, deploy_outcome) ==
    LET func_name == Head(run.todo)
        done == DeployFunction(func_name, run.schedules[func_name],
                    run.functions_to_schedule[func_name],
                    Get(run.deployment_state, func_name, <<>>),
                    status, deploy_outcome, wallclock)
        after == [run EXCEPT
                     !.schedules = With(run.schedules, func_name,
                                        done.schedule),
                     !.deployment_state =
                         IF done.result.deployed
                         THEN With(run.deployment_state, func_name,
                                   done.state)
                         ELSE run.deployment_state,
                     !.deployment_results =
                         With(run.deployment_results, func_name, done.result),
                     !.todo = Tail(run.todo)]
    IN /\ run.pc = "deploy"
       /\ run' = IF after.todo # <<>> THEN after
                 ELSE [after EXCEPT !.pc = "save"]
       /\ IF done.written
          THEN /\ bucket' = [bucket EXCEPT ![func_name] =
                                [exists |-> TRUE, doc |-> done.schedule]]
               /\ calls' = calls \o done.mcp_calls
                              \o <<Write(func_name, done.schedule)>>
          ELSE /\ calls' = calls \o done.mcp_calls
               /\ UNCHANGED bucket
       /\ UNCHANGED <<wallclock, metadata_file, state_file>>

\* the calls of the deploy contract the next pass makes
CallsOfNext(status, deploy_outcome) ==
    DeployFunction(Head(run.todo), run.schedules[Head(run.todo)],
        run.functions_to_schedule[Head(run.todo)],
        Get(run.deployment_state, Head(run.todo), <<>>),
        status, deploy_outcome, wallclock).mcp_calls

\* A pass that asks the status is taken with every answer, and one that
\* deploys with every outcome of the deployment; a pass that makes neither
\* call is taken once.
StatusesAsked ==
    IF \E i \in 1..Len(CallsOfNext(Raise("MCPError"), "raise")) :
          CallsOfNext(Raise("MCPError"), "raise")[i][1]
              = "get_function_status"
    THEN StatusOutcomes
    ELSE {Raise("MCPError")}

OutcomesAsked(status) ==
    IF \E i \in 1..Len(CallsOfNext(status, "raise")) :
          CallsOfNext(status, "raise")[i][1] = "deploy_function"
    THEN DeployOutcomes
    ELSE {"raise"}

\* a deployment step that returns without saving the state
ReturnUnsaved ==
    /\ run.pc = "save"
    /\ run' = [run EXCEPT !.pc = "finished"]
    /\ UNCHANGED <<wallclock, metadata_file, bucket, state_file, calls>>

\* save_deployment_state at the end of the loop; run_scheduler returns
SaveState ==
    /\ run.pc = "save"
    /\ state_file' = run.deployment_state
    /\ calls' = Append(calls, Write("deployment_state.json",
                                    run.deployment_state))
    /\ run' = [run EXCEPT !.pc = "finished"]
    /\ UNCHANGED <<wallclock, metadata_file, bucket>>

PlanNext ==
    \/ /\ \E parses \in [FnSet -> ParseOutcomes] : StartRun(parses)
       /\ UNCHANGED dispatcher_vars
    \/ /\ \E failing \in FetchFailures : FetchForecasts(failing)
       /\ UNCHANGED dispatcher_vars
    \/ /\ Refresh
       /\ UNCHANGED dispatcher_vars
    \/ /\ \E answer \in Answers(Days(wallclock)) : RankOne(answer)
       /\ UNCHANGED dispatcher_vars
    \/ /\ run.pc = "deploy"
       /\ \E status \in StatusesAsked :
             \E deploy_outcome \in OutcomesAsked(status) :
                DeployOne(status, deploy_outcome)
       /\ UNCHANGED dispatcher_vars
    \/ /\ SaveState
       /\ UNCHANGED dispatcher_vars

PlanSpec == PlanInit /\ [][PlanNext]_vars

---------------------------------------------------------------------------
(* The claims about the cache of schedules                                 *)

\* timedelta(days=days)
timedelta(days) == days * 2

\* the cache has just been checked: nothing was written since the run began
CacheChecked ==
    /\ run.pc \in {"assemble", "refresh", "rank"}
    /\ run.order = <<>>

\* is_cached_schedule_valid found the schedule of func_name valid
FoundValid(func_name) == func_name \in DOMAIN run.cached_functions

\* C11: a function's cached schedule is found valid if and only if caching
\* is allowed for it, schedule_<fn> exists, its stored metadata_hash is the
\* hash of the current metadata and now - created_at is at most 7 days; a
\* schedule older than 7 days by any amount is found invalid.
C11_ValidIffWithinSevenDays ==
    CacheChecked =>
        \A f \in FnSet :
            FoundValid(f) <=>
                /\ run.functions_to_schedule[f].allow_schedule_caching
                /\ bucket[f].exists
                /\ bucket[f].doc.metadata.metadata_hash
                       = run.metadata_hashes[f]
                /\ wallclock - bucket[f].doc.metadata.created_at
                       <= timedelta(MAX_FORECAST_AGE_DAYS)

\* every function's cached schedule was found valid
AllCached == run.path = "cached"

\* the positions of calls at which the deploy contract is called
McpCalls ==
    {i \in 1..Len(calls) :
        calls[i][1] \in {"get_function_status", "deploy_function"}}

\* the cached schedule of func_name was written back with today's dates
\* before any call of the deploy contract
PersistedRefreshed(func_name) ==
    \E i \in 1..Len(calls) :
        /\ calls[i][1] = "write"
        /\ calls[i][2] = func_name
        /\ calls[i][3] =
               RefreshCached(run.cached_functions[func_name], wallclock).value
        /\ \A j \in McpCalls : i < j

Restamped(old, new, today) ==
    /\ new.datetime.day = today
    /\ new.datetime.hour = old.datetime.hour
    /\ DOMAIN new = DOMAIN old
    /\ \A k \in DOMAIN old \ {"datetime"} : new[k] = old[k]

\* the document new is old refreshed at the instant clock
RefreshOf(old, new, clock) ==
    /\ Len(new.recommendations) = Len(old.recommendations)
    /\ \A i \in 1..Len(old.recommendations) :
          Restamped(old.recommendations[i], new.recommendations[i],
                    Days(clock))
    /\ new.metadata.metadata_hash = old.metadata.metadata_hash
    /\ new.metadata.created_at = old.metadata.created_at
    /\ new.metadata.generated_at = clock
    /\ DOMAIN new.metadata = DOMAIN old.metadata
    /\ \A k \in DOMAIN old.metadata \ {"generated_at"} :
          new.metadata[k] = old.metadata[k]
    /\ DOMAIN new = DOMAIN old
    /\ \A k \in DOMAIN old \ {"recommendations", "metadata"} :
          new[k] = old[k]

\* C13: every refresh of a cached schedule, in the all-cached run and in the
\* mixed run, persists a document whose recommendations carry today's date
\* and the hour and minute they had, in the same number and order with the
\* same priorities and regions, and whose metadata_hash and created_at are
\* those of the document persisted before; only the datetime fields and
\* metadata.generated_at differ, and no other schedule is written.
C13_RefreshFrame ==
    [][(run.pc = "refresh" /\ run'.pc # "failed")
          => /\ bucket[Head(run.todo)].exists
             /\ RefreshOf(bucket[Head(run.todo)].doc,
                          bucket'[Head(run.todo)].doc, wallclock)
             /\ \A f \in FnSet \ {Head(run.todo)} : bucket'[f] = bucket[f]]_vars

\* in a mixed run a cached schedule of an earlier day was written back with
\* today's dates while the other function was ranked anew
C13_Witness ==
    /\ run.path = "mixed"
    /\ run.pc = "finished"
    /\ \E f \in DOMAIN run.cached_functions :
          /\ run.cached_functions[f].recommendations[1].datetime.day
                 # Days(wallclock)
          /\ bucket[f].doc.recommendations[1].datetime.day = Days(wallclock)
          /\ bucket[f].doc.metadata.created_at
                 = run.cached_functions[f].metadata.created_at
    /\ \E g \in FnSet : g \notin DOMAIN run.cached_functions

---------------------------------------------------------------------------
(* The claims about the schedules generated in a run                       *)

\* the ranking loop has handled func_name in this run
Ranked(func_name) ==
    /\ func_name \in DOMAIN run.schedules
    /\ func_name \notin DOMAIN run.cached_functions

\* the ranking of func_name gave a schedule, which was written
Generated(func_name) ==
    /\ Ranked(func_name)
    /\ "error" \notin DOMAIN run.schedules[func_name]

\* one recommendation per forecast hour, the priorities 1, 2, ... in this
\* order, every region among those the ranker was given
WellFormed(doc) ==
    /\ Len(doc.recommendations) = Len(ForecastHours)
    /\ \A i \in 1..Len(doc.recommendations) :
          /\ doc.recommendations[i].priority = i
          /\ doc.recommendations[i].region \in doc.metadata.regions_used

\* C14: every schedule document the planner persists for a generated
\* schedule has one recommendation per forecast hour (24), with the
\* priorities exactly 1..24 in ascending order and every region among the
\* regions whose forecasts were given to the ranker, whatever JSON the LLM
\* returned.
C14_WellFormed ==
    \A f \in FnSet :
        Generated(f) => bucket[f].exists /\ WellFormed(bucket[f].doc)

\* the ranking of func_name failed: the call raised (LLM error, answer that
\* is not JSON) or the answer is not a well-formed schedule
RankingFailed(func_name) ==
    /\ Ranked(func_name)
    /\ \/ "error" \in DOMAIN run.schedules[func_name]
       \/ ~WellFormed(run.schedules[func_name])

\* schedule_<func_name> has not been written in this run
NotWritten(func_name) ==
    \A i \in 1..Len(calls) :
        ~(calls[i][1] = "write" /\ calls[i][2] = func_name)

\* the deploy contract has not been called for func_name in this run
NoDeployAttempt(func_name) ==
    \A i \in McpCalls : calls[i][2] # func_name

\* C15: if the ranking of a function fails (LLM error, unparseable or
\* invalid response), its persisted schedule stays the document persisted
\* before the run (or stays absent), the function is reported with an error,
\* no deployment is attempted for it, and the schedules of the other
\* functions are still generated.
C15_FailureKeepsSchedule ==
    \A f \in FnSet :
        RankingFailed(f) =>
            /\ NotWritten(f)
            /\ "error" \in DOMAIN run.schedules[f]
            /\ NoDeployAttempt(f)
            /\ run.pc = "finished" => DOMAIN run.schedules = FnSet

\* parse_natural_language_request raised for an entry of the metadata file
ExtractionFailed == run.error = "ExtractionError"

\* C16: when the natural-language extraction of one function fails, only
\* that function fails: the run does not abort, and every other function is
\* still planned, persisted and deployed.
C16_ExtractionIsolated ==
    ExtractionFailed =>
        /\ run.pc # "failed"
        /\ run.pc = "finished" =>
              \E f \in FnSet : f \in DOMAIN run.deployment_results

---------------------------------------------------------------------------
(* The claims about the regions of a run                                   *)

\* the metadata of func_name as the user gave it, defaults applied, before
\* any filter of step 3
AsGiven(func_name) == PlannedMetadata(metadata_file[func_name])

\* the continent of the source_location of metadata
SourceContinent(metadata) ==
    Get(get_region_info(metadata.source_location), "continent",
        "north-america")

\* the positions of calls at which a function is ranked
RankCalls == {i \in 1..Len(calls) : calls[i][1] = "rank"}

\* the candidate regions keep within the allow-list, the continent and the
\* GPU regions that metadata asks for
WithinFilters(candidates, metadata) ==
    /\ metadata.allowed_regions # <<>>
          => candidates \subseteq Range(metadata.allowed_regions)
    /\ metadata.latency_important
          => \A r \in candidates :
                SameContinent(r, SourceContinent(metadata))
    /\ metadata.gpu_required => \A r \in candidates : GpuAvailable(r)

\* C17: for every function the candidate regions passed to ranking are a
\* subset of the user's allow-list when it is not empty, lie on the
\* continent of source_location when latency_important, and are GPU regions
\* when gpu_required; also when a filter removes every region of the
\* allow-list, the candidates then being none and never widened.
C17_FilteringMonotone ==
    \A i \in RankCalls : WithinFilters(calls[i][3], AsGiven(calls[i][2]))

\* the positions of calls at which the forecasts are fetched
FetchCalls == {i \in 1..Len(calls) : calls[i][1] = "fetch"}

\* scenario 5: A requires a GPU and allows europe-west1 (GPU) and
\* europe-north1 (no GPU), B requires none and allows europe-north1, and both
\* need a new schedule
GpuScenario ==
    /\ metadata_file["A"] =
           Object([allowed_regions |-> <<"europe-west1", "europe-north1">>,
                   gpu_required |-> TRUE, code |-> "c1"])
    /\ metadata_file["B"] =
           Object([allowed_regions |-> <<"europe-north1">>, code |-> "c1"])
    /\ run.functions_needing_schedule = <<"A", "B">>

\* the regions func_name adds to the union before its GPU filter
AddedBeforeGpu(func_name) ==
    LatencyFilter(AsGiven(func_name)).added \cap RegionCodes

\* C18: in the scenario the forecasts are fetched for europe-west1 and
\* europe-north1, A is ranked over europe-west1 only and B over
\* europe-north1 only; in every run the regions fetched contain all the
\* regions a function needing a schedule had before its GPU filter.
C18_UnionNotShrunk ==
    /\ \A i \in FetchCalls :
          /\ \A f \in Range(run.functions_needing_schedule) :
                AddedBeforeGpu(f) \subseteq calls[i][3]
          /\ GpuScenario =>
                /\ calls[i][3] = {"europe-west1", "europe-north1"}
                /\ run.functions_to_schedule["A"].allowed_regions
                       = <<"europe-west1">>
                /\ run.functions_to_schedule["B"].allowed_regions
                       = <<"europe-north1">>
    /\ GpuScenario =>
          \A i \in RankCalls :
              calls[i][3] = IF calls[i][2] = "A" THEN {"europe-west1"}
                            ELSE {"europe-north1"}

\* the run of the scenario returned after fetching both regions and ranking
\* A and B
C18_Witness ==
    /\ GpuScenario
    /\ run.pc = "finished"
    /\ \E i \in FetchCalls : calls[i][3] = {"europe-west1", "europe-north1"}
    /\ \E i \in RankCalls : calls[i][2] = "A" /\ calls[i][3] = {"europe-west1"}
    /\ \E i \in RankCalls : calls[i][2] = "B" /\ calls[i][3] = {"europe-north1"}

---------------------------------------------------------------------------
(* The claims about the deployment step                                    *)

\* the deployment loop has handled func_name, whose schedule was generated
\* or refreshed without error and has recommendations, and whose metadata
\* carries code
Deployable(func_name) ==
    /\ func_name \in DOMAIN run.deployment_results
    /\ "error" \notin DOMAIN run.schedules[func_name]
    /\ run.schedules[func_name].recommendations # <<>>
    /\ "code" \in DOMAIN run.functions_to_schedule[func_name]

\* the region of the slot of priority 1
Priority1Region(recommendations) ==
    recommendations[CHOOSE i \in 1..Len(recommendations) :
                        recommendations[i].priority = 1].region

\* deploy_function of the deploy contract was called for func_name
DeployCalled(func_name) ==
    \E i \in 1..Len(calls) :
        calls[i][1] = "deploy_function" /\ calls[i][2] = func_name

\* the status call answered that the service exists and is ACTIVE
ReportsActive(status) ==
    /\ status.kind = "return"
    /\ Get(status.value, "exists", FALSE) = TRUE
    /\ Get(status.value, "status", None) = "ACTIVE"

\* the status of func_name was asked and the service not found ACTIVE
NotFoundActive(func_name) ==
    \E i \in 1..Len(calls) :
        /\ calls[i][1] = "get_function_status"
        /\ calls[i][2] = func_name
        /\ ~ReportsActive(calls[i][4])

\* a redeploy is required for func_name, by deployment_state.json as it was
\* loaded (state_file is written only when the loop is over)
RedeployRequired(func_name) ==
    \/ func_name \notin DOMAIN state_file
    \/ state_file[func_name].code_hash
           # compute_code_hash(run.functions_to_schedule[func_name].code)
    \/ state_file[func_name].deployed_region
           # Priority1Region(run.schedules[func_name].recommendations)
    \/ NotFoundActive(func_name)

\* C19: for each function with a successful schedule and code, the deploy
\* contract is called to deploy it if and only if the deployment state has
\* no record of it, or the recorded code_hash differs from the hash of the
\* current code, or the recorded region differs from the region of the
\* priority-1 slot, or the status check did not find the service existing
\* and ACTIVE; when none of these holds no deploy call is made.
C19_RedeployIff ==
    run.pc \in {"deploy", "save"} =>
        \A f \in FnSet :
            Deployable(f) => (DeployCalled(f) <=> RedeployRequired(f))

\* both decisions were taken in one run: a function with a record of the
\* same code in the priority-1 region was found ACTIVE and not deployed,
\* and a function was redeployed
C19_Witness ==
    /\ run.pc = "save"
    /\ \E f \in FnSet :
          /\ Deployable(f)
          /\ ~RedeployRequired(f)
          /\ ~DeployCalled(f)
          /\ run.deployment_results[f].reason = "already_deployed"
    /\ \E g \in FnSet :
          /\ Deployable(g)
          /\ DeployCalled(g)
          /\ g \in DOMAIN state_file

\* the result of func_name is a successful deployment or the skip
\* "already_deployed"
DeployedOrActive(func_name) ==
    /\ func_name \in DOMAIN run.deployment_results
    /\ \/ run.deployment_results[func_name].deployed
       \/ run.deployment_results[func_name].reason = "already_deployed"

\* the persisted schedule of func_name agrees with its record in state
Aligned(func_name, state) ==
    /\ func_name \in DOMAIN state
    /\ bucket[func_name].exists
    /\ state[func_name].deployed_region
           = Priority1Region(bucket[func_name].doc.recommendations)
    /\ "deployment" \in DOMAIN bucket[func_name].doc
    /\ \A i \in 1..Len(bucket[func_name].doc.recommendations) :
          /\ "function_url"
                 \in DOMAIN bucket[func_name].doc.recommendations[i]
          /\ bucket[func_name].doc.recommendations[i].function_url
                 = state[func_name].function_url

\* C20: after the deployment step, for every function whose result is a
\* successful deploy or an already_deployed skip, the deployed_region of its
\* deployment state record is the region of the priority-1 slot of the
\* persisted schedule, the persisted schedule has a deployment record, and
\* every slot of it carries the function_url of the state record.
C20_Aligned ==
    /\ run.pc = "save" =>
          \A f \in FnSet :
              DeployedOrActive(f) => Aligned(f, run.deployment_state)
    /\ run.pc = "finished" =>
          \A f \in FnSet : DeployedOrActive(f) => Aligned(f, state_file)

\* a run returned having deployed one function to a new region and skipped
\* another as already deployed, whose fresh schedule it backfilled
C20_Witness ==
    /\ run.pc = "finished"
    /\ \E f \in FnSet :
          /\ f \in DOMAIN run.deployment_results
          /\ run.deployment_results[f].deployed
          /\ Aligned(f, state_file)
    /\ \E g \in FnSet :
          /\ g \in DOMAIN run.deployment_results
          /\ run.deployment_results[g].reason = "already_deployed"
          /\ Generated(g)
          /\ Aligned(g, state_file)

---------------------------------------------------------------------------
(* The claims about the deployment step                                    *)

\* the positions of calls at which deployment_state.json is written
StateWrites ==
    {i \in 1..Len(calls) :
        /\ calls[i][1] = "write"
        /\ calls[i][2] = "deployment_state.json"}

\* the deployment decision of every function of the run has been taken
AllDecided == DOMAIN run.deployment_results = Range(run.order)

\* C21: deployment_state is written once per planning run that reaches the
\* deployment step, after the decisions of all functions have been applied
\* to the in-memory state, whatever deploys, skips and failures occurred; no
\* write of it happens before or between the functions' deployments.
C21_StateWrittenOnce ==
    /\ run.pc # "finished" =>
          /\ StateWrites = {}
          /\ run.pc = "save" => AllDecided
    /\ run.pc = "finished" =>
          /\ StateWrites = {Len(calls)}
          /\ AllDecided
          /\ calls[Len(calls)][3] = run.deployment_state
          /\ state_file = run.deployment_state
          /\ \A f \in DOMAIN run.deployment_results :
                run.deployment_results[f].deployed =>
                    /\ f \in DOMAIN state_file
                    /\ state_file[f].deployed_region
                           = run.deployment_results[f].region

\* a run returned after one function was deployed and the deployment of
\* the other failed
C21_Witness ==
    /\ run.pc = "finished"
    /\ StateWrites = {Len(calls)}
    /\ \E f, g \in FnSet :
          /\ run.deployment_results[f].deployed
          /\ run.deployment_results[g].reason
                 \in {"deployment_failed", "deployment_error"}

\* the deployment of func_name was attempted and did not succeed
DeployFailed(func_name) ==
    /\ func_name \in DOMAIN run.deployment_results
    /\ run.deployment_results[func_name].reason
           \in {"deployment_failed", "deployment_error"}

\* the position of calls at which func_name's deployment was attempted
DeployAttempt(func_name) ==
    CHOOSE i \in 1..Len(calls) :
        /\ calls[i][1] = "deploy_function"
        /\ calls[i][2] = func_name

\* the schedule of func_name in the Object Store is the one the run had
\* before the deployment step: deployment data only if it was a cached
\* schedule that carried it
AsBeforeDeployment(func_name) ==
    /\ bucket[func_name].doc = run.schedules[func_name]
    /\ IF FoundValid(func_name)
       THEN bucket[func_name].doc =
                RefreshCached(run.cached_functions[func_name], wallclock).value
       ELSE "deployment" \notin DOMAIN bucket[func_name].doc

\* what C22 says of every function whose deployment failed, but for the
\* deployment data of its schedule
FailureHandled(f) ==
    /\ ~run.deployment_results[f].deployed
    /\ run.pc \in {"deploy", "save"} =>
          Get(run.deployment_state, f, <<>>) = Get(state_file, f, <<>>)
    /\ \A i \in 1..Len(calls) :
          calls[i][1] = "write" /\ calls[i][2] = f => i < DeployAttempt(f)
    /\ run.pc \in {"save", "finished"} => AllDecided

\* C22: when the deploy contract returns non-success or raises for a
\* function, the failure is recorded in that function's deployment result,
\* its entry of the deployment state keeps its previous value, the persisted
\* schedule is not rewritten and has no deployment data, and the remaining
\* functions are still handled.
C22_DeployError ==
    \A f \in FnSet :
        DeployFailed(f) =>
            /\ FailureHandled(f)
            /\ "deployment" \notin DOMAIN bucket[f].doc

\* C22 as the code has it: the persisted schedule is not rewritten, so it
\* has the deployment data it had before the deployment step, none when it
\* was generated in this run.
C22_DeployErrorKeepsSchedule ==
    \A f \in FnSet :
        DeployFailed(f) =>
            /\ FailureHandled(f)
            /\ AsBeforeDeployment(f)

\* a run returned in which the deployment of A failed, its cached schedule
\* keeping the record of an earlier deployment, and B was deployed after it
C22_Witness ==
    /\ run.pc = "finished"
    /\ DeployFailed("A")
    /\ FoundValid("A")
    /\ "deployment" \in DOMAIN bucket["A"].doc
    /\ run.deployment_results["B"].deployed

---------------------------------------------------------------------------
(* compute_metadata_hash on its own: the entries of two functions are read *)
(* from function_metadata.json and hashed, as in steps 1 and 2 of          *)
(* run_scheduler.                                                          *)

\* the values the fields of an entry take
FieldValues ==
    [runtime_ms |-> {1000, 2000}, memory_mb |-> {512, 1024},
     data_input_gb |-> {0, 2}, data_output_gb |-> {0, 1},
     source_location |-> {"us-east1", "europe-west1"},
     invocations_per_day |-> {1, 10}, priority |-> {"balanced", "cost"},
     latency_important |-> BOOLEAN, gpu_required |-> BOOLEAN,
     vcpus |-> {<<>>, <<2>>},
     allowed_regions |-> {<<"europe-west1", "europe-north1">>,
                          <<"europe-west1", "europe-north1", "europe-west1">>},
     allow_schedule_caching |-> {TRUE}]

MetadataValues ==
    [runtime_ms : FieldValues.runtime_ms, memory_mb : FieldValues.memory_mb,
     data_input_gb : FieldValues.data_input_gb,
     data_output_gb : FieldValues.data_output_gb,
     source_location : FieldValues.source_location,
     invocations_per_day : FieldValues.invocations_per_day,
     priority : FieldValues.priority,
     latency_important : FieldValues.latency_important,
     gpu_required : FieldValues.gpu_required, vcpus : FieldValues.vcpus,
     allowed_regions : FieldValues.allowed_regions,
     allow_schedule_caching : FieldValues.allow_schedule_caching]

\* other lists of allowed regions: the same regions in another order, a
\* repetition moved, and other sets of regions
OtherAllowedRegions ==
    {<<"europe-north1", "europe-west1">>,
     <<"europe-west1", "europe-west1", "europe-north1">>,
     <<"europe-west1">>, <<>>,
     <<"europe-west1", "europe-north1", "us-east1">>}

\* the fields of compute_metadata_hash but allowed_regions
ScalarFields ==
    {"runtime_ms", "memory_mb", "data_input_gb", "data_output_gb",
     "source_location", "invocations_per_day", "priority",
     "latency_important", "gpu_required", "vcpus"}

\* the keys of an entry in the order they are written in the file
KeyOrder ==
    <<"runtime_ms", "memory_mb", "data_input_gb", "data_output_gb",
      "source_location", "invocations_per_day", "priority",
      "latency_important", "gpu_required", "vcpus", "allowed_regions",
      "allow_schedule_caching">>

Reversed(s) == [i \in 1..Len(s) |-> s[Len(s) + 1 - i]]

\* a JSON object as it stands in the file: its members in order
Items(m, order) == [i \in 1..Len(order) |-> <<order[i], m[order[i]]>>]

\* json.load: the dict of a JSON object, a repeated key keeping its last
\* value
dict(items) ==
    [k \in {items[i][1] : i \in 1..Len(items)} |->
        items[CHOOSE i \in 1..Len(items) :
                 /\ items[i][1] = k
                 /\ \A j \in 1..Len(items) : items[j][1] = k => j <= i][2]]

\* the entries that differ from m in one field, or in nothing
Variants(m) ==
    {m}
      \cup UNION {{[m EXCEPT ![k] = v] : v \in FieldValues[k]} :
                     k \in ScalarFields}
      \cup {[m EXCEPT !.allowed_regions = a] : a \in OtherAllowedRegions}
      \cup {[m EXCEPT !.allow_schedule_caching = FALSE]}

\* function_metadata.json holds the entry of A, and for B a variant of it
\* with its keys in the opposite order
HashInit ==
    /\ now = 0
    /\ mode = "CLOUD"
    /\ pc = "idle"
    /\ event = NoEvent
    /\ loaded = NotLoaded
    /\ outcome = [kind |-> "none"]
    /\ tasks = <<>>
    /\ wallclock = 0
    /\ \E a \in MetadataValues :
          \E b \in Variants(a) :
             metadata_file =
                 [f \in FnSet |->
                     IF f = "A" THEN Items(a, KeyOrder)
                     ELSE Items(b, Reversed(KeyOrder))]
    /\ bucket = [f \in FnSet |-> Absent]
    /\ state_file = <<>>
    /\ run = NoRun
    /\ calls = <<>>

\* steps 1.5 and 2 up to the hashes: defaults applied, metadata_hashes
\* computed
HashMetadata ==
    LET functions_to_schedule ==
            [f \in FnSet |-> apply_defaults(dict(metadata_file[f]))]
    IN /\ run.pc = "idle"
       /\ run' = [NoRun EXCEPT
                     !.pc = "hashed",
                     !.functions_to_schedule = functions_to_schedule,
                     !.metadata_hashes =
                         [f \in FnSet |->
                             compute_metadata_hash(functions_to_schedule[f])]]
       /\ UNCHANGED <<wallclock, metadata_file, bucket, state_file, calls>>

HashNext == HashMetadata /\ UNCHANGED dispatcher_vars

HashSpec == HashInit /\ [][HashNext]_vars

\* the number of times x is listed in s
Count(s, x) == Cardinality({i \in 1..Len(s) : s[i] = x})

\* the lists s and t have the same elements, each as often
SameUpToOrder(s, t) == \A x \in Range(s) \cup Range(t) : Count(s, x) = Count(t, x)

\* the metadata a and b have the same value in every scalar field of the
\* hash
SameScalars(a, b) == \A k \in ScalarFields : a[k] = b[k]

\* C23: two metadata records that differ only in the order of
\* allowed_regions, in allow_schedule_caching or in the order of their keys
\* have equal hashes; two that differ in a scheduling field (one of the ten
\* scalar fields, or the set of allowed_regions) give sha256 different inputs.
C23_HashInvariance ==
    run.pc = "hashed" =>
        LET a == run.functions_to_schedule["A"]
            b == run.functions_to_schedule["B"]
        IN /\ SameScalars(a, b)
                  /\ SameUpToOrder(a.allowed_regions, b.allowed_regions)
              => run.metadata_hashes["A"] = run.metadata_hashes["B"]
           /\ ~SameScalars(a, b)
                  \/ Range(a.allowed_regions) # Range(b.allowed_regions)
              => run.metadata_hashes["A"] # run.metadata_hashes["B"]

\* two entries with their keys in opposite orders, allowed_regions in
\* different orders, hashed to the same value
C23_Witness ==
    /\ run.pc = "hashed"
    /\ metadata_file["A"][1][1] # metadata_file["B"][1][1]
    /\ run.functions_to_schedule["A"].allowed_regions
           # run.functions_to_schedule["B"].allowed_regions
    /\ run.metadata_hashes["A"] = run.metadata_hashes["B"]

---------------------------------------------------------------------------
(* calculate_region_metrics on its own: the transfer costs of the regions  *)
(* a function is ranked over, computed in get_gemini_schedule before the   *)
(* prompt is built. Costs are whole hundredths of a USD and data sizes      *)
(* whole GB, so the products are exact; the rounding of binary floating    *)
(* point is not modelled.                                                  *)

\* a transfer cost that charges the source region as any other
transfer_cost_everywhere(region_code, data_input_gb, data_output_gb, source_location) ==
    (data_input_gb + data_output_gb)
        * Get(get_region_info(region_code), "data_transfer_cost_per_gb_usd", 0)

calculate_transfer_cost(region_code, data_input_gb, data_output_gb, source_location) ==
    IF source_location # "" /\ region_code = source_location THEN 0
    ELSE LET region_info == get_region_info(region_code)
             cost_per_gb ==
                 Get(region_info, "data_transfer_cost_per_gb_usd", 0)
             total_data_gb == data_input_gb + data_output_gb
         IN total_data_gb * cost_per_gb

\* the transfer entries of region_metrics, for every region of
\* carbon_forecasts
calculate_region_metrics(carbon_forecasts, function_metadata) ==
    [region_code \in carbon_forecasts |->
        LET transfer_cost_per_exec ==
                calculate_transfer_cost(region_code,
                    function_metadata.data_input_gb,
                    function_metadata.data_output_gb,
                    function_metadata.source_location)
            yearly_invocations == function_metadata.invocations_per_day * 365
        IN [transfer_cost_per_execution |-> transfer_cost_per_exec,
            transfer_cost_yearly |->
                transfer_cost_per_exec * yearly_invocations]]

\* the run is about to rank A over the forecasts of some regions
CostInit ==
    /\ now = 0
    /\ mode = "CLOUD"
    /\ pc = "idle"
    /\ event = NoEvent
    /\ loaded = NotLoaded
    /\ outcome = [kind |-> "none"]
    /\ tasks = <<>>
    /\ wallclock = 0
    /\ \E a \in MetadataValues :
          /\ metadata_file =
                 [f \in FnSet |->
                     Items(IF f = "A" THEN a ELSE METADATA_DEFAULTS, KeyOrder)]
          /\ \E regions \in SUBSET RegionCodes \ {{}} :
                run = [NoRun EXCEPT
                          !.pc = "rank",
                          !.functions_to_schedule =
                              [f \in FnSet |->
                                  IF f = "A" THEN a ELSE METADATA_DEFAULTS],
                          !.carbon_forecasts = regions,
                          !.todo = <<"A">>]
    /\ bucket = [f \in FnSet |-> Absent]
    /\ state_file = <<>>
    /\ calls = <<>>

\* get_gemini_schedule up to the metrics of the next function
ComputeMetrics ==
    LET function_name == Head(run.todo)
        region_metrics ==
            calculate_region_metrics(run.carbon_forecasts,
                run.functions_to_schedule[function_name])
    IN /\ run.pc = "rank"
       /\ run.todo # <<>>
       /\ calls' = Append(calls, <<"metrics", function_name, region_metrics>>)
       /\ run' = [run EXCEPT !.todo = Tail(run.todo)]
       /\ UNCHANGED <<wallclock, metadata_file, bucket, state_file>>

CostNext == ComputeMetrics /\ UNCHANGED dispatcher_vars

CostSpec == CostInit /\ [][CostNext]_vars

\* the metrics computed for func_name have been computed
MetricsOf(func_name) ==
    calls[CHOOSE i \in 1..Len(calls) :
             calls[i][1] = "metrics" /\ calls[i][2] = func_name][3]

\* the transfer price of a region, hundredths of a USD per GB
TransferPrice(r) == StaticRegions[r].data_transfer_cost_per_gb_usd

\* C24: for every candidate region r, transfer_cost_per_execution is 0 when
\* r is the source location and otherwise (data_input_gb + data_output_gb)
\* times r's transfer price per GB; the yearly transfer cost is the
\* per-execution value times invocations_per_day times 365, hence 0 for the
\* source region.
C24_TransferCost ==
    calls # <<>> =>
        LET md == run.functions_to_schedule["A"]
            metrics == MetricsOf("A")
        IN /\ DOMAIN metrics = run.carbon_forecasts
           /\ \A r \in DOMAIN metrics :
                 /\ metrics[r].transfer_cost_per_execution =
                        IF r = md.source_location THEN 0
                        ELSE (md.data_input_gb + md.data_output_gb)
                                 * TransferPrice(r)
                 /\ metrics[r].transfer_cost_yearly =
                        metrics[r].transfer_cost_per_execution
                            * md.invocations_per_day * 365
                 /\ r = md.source_location
                        => metrics[r].transfer_cost_yearly = 0

\* metrics computed for a function that moves data, over its source region
\* and another one
C24_Witness ==
    /\ calls # <<>>
    /\ run.functions_to_schedule["A"].data_input_gb > 0
    /\ run.functions_to_schedule["A"].invocations_per_day > 1
    /\ \E r, q \in DOMAIN MetricsOf("A") :
          /\ r = run.functions_to_schedule["A"].source_location
          /\ MetricsOf("A")[q].transfer_cost_yearly > 0

---------------------------------------------------------------------------
(* write_to_storage of schedule_A against a dispatcher that reads it: the  *)
(* planner is about to write the schedule it generated, and the            *)
(* dispatcher's load_schedule can run between any two steps of the write.  *)
(* run.path is the backend, LOCAL when IS_LOCAL_MODE; the dispatcher reads *)
(* from the same place.                                                    *)

\* a local file opened with mode "w" and not yet closed: what it holds is
\* not a JSON document
Truncated == [exists |-> TRUE, truncated |-> TRUE]

\* the schedules the planner has generated for A
NewDocuments ==
    {run_scheduler_for_function(answer, METADATA_DEFAULTS, {"europe-west1"},
         compute_metadata_hash(METADATA_DEFAULTS), 21).value :
        answer \in {a \in Answers(Days(21)) : a.kind = "return"}}

\* schedule_A before the write
PreviousBlobs ==
    {Absent}
      \cup {StoredDoc("A", compute_metadata_hash(METADATA_DEFAULTS),
                      21 - age, "std", state) :
               age \in Ages, state \in StateFiles}

StoreInit ==
    /\ now = 0
    /\ mode = "CLOUD"
    /\ pc = "idle"
    /\ event = NoEvent
    /\ loaded = NotLoaded
    /\ outcome = [kind |-> "none"]
    /\ tasks = <<>>
    /\ wallclock = 21
    /\ metadata_file = [f \in FnSet |-> Object(<<>>)]
    /\ \E previous \in PreviousBlobs :
          bucket = [f \in FnSet |-> IF f = "A" THEN previous ELSE Absent]
    /\ state_file = <<>>
    /\ \E location \in Locations, doc \in NewDocuments :
          run = [NoRun EXCEPT !.pc = "write", !.path = location,
                              !.todo = <<"A">>,
                              !.schedules = [f \in {"A"} |-> doc]]
    /\ calls = <<>>

\* the write has ended, with the exception exc or without one
WriteEnded(exc) ==
    IF exc = None
    THEN /\ run' = [run EXCEPT !.pc = "written", !.todo = Tail(run.todo)]
         /\ calls' = Append(calls, Write(Head(run.todo),
                                         run.schedules[Head(run.todo)]))
    ELSE /\ run' = [run EXCEPT !.pc = "failed", !.error = exc]
         /\ UNCHANGED calls

\* local mode: open(filepath, 'w') empties the file, or fails to open it
OpenLocal(ok) ==
    /\ run.pc = "write"
    /\ run.path = "LOCAL"
    /\ IF ok
       THEN /\ bucket' = [bucket EXCEPT ![Head(run.todo)] = Truncated]
            /\ run' = [run EXCEPT !.pc = "dumping"]
            /\ UNCHANGED calls
       ELSE /\ WriteEnded("OSError")
            /\ UNCHANGED bucket
    /\ UNCHANGED <<wallclock, metadata_file, state_file, loaded>>

\* local mode: json.dump writes the document and the file is closed, or
\* the writing fails part of the way
DumpLocal(ok) ==
    /\ run.pc = "dumping"
    /\ IF ok
       THEN /\ bucket' = [bucket EXCEPT ![Head(run.todo)] =
                            [exists |-> TRUE,
                             doc |-> run.schedules[Head(run.todo)]]]
            /\ WriteEnded(None)
       ELSE /\ WriteEnded("OSError")
            /\ UNCHANGED bucket
    /\ UNCHANGED <<wallclock, metadata_file, state_file, loaded>>

\* cloud mode: blob.upload_from_string replaces the object, or fails
\* leaving it as it was
Upload(ok) ==
    /\ run.pc = "write"
    /\ run.path = "CLOUD"
    /\ IF ok
       THEN /\ bucket' = [bucket EXCEPT ![Head(run.todo)] =
                            [exists |-> TRUE,
                             doc |-> run.schedules[Head(run.todo)]]]
            /\ WriteEnded(None)
       ELSE /\ WriteEnded("GoogleCloudError")
            /\ UNCHANGED bucket
    /\ UNCHANGED <<wallclock, metadata_file, state_file, loaded>>

\* the dispatcher's get_loader().load_schedule("A")
ReadSchedule ==
    /\ loaded' = [calls |-> 1,
                  schedule |-> load_schedule(run.path, bucket["A"])]
    /\ UNCHANGED <<now, mode, pc, event, outcome, tasks>>
    /\ UNCHANGED planner_vars

StoreNext ==
    \/ /\ \E ok \in BOOLEAN : OpenLocal(ok)
       /\ UNCHANGED <<now, mode, pc, event, outcome, tasks>>
    \/ /\ \E ok \in BOOLEAN : DumpLocal(ok)
       /\ UNCHANGED <<now, mode, pc, event, outcome, tasks>>
    \/ /\ \E ok \in BOOLEAN : Upload(ok)
       /\ UNCHANGED <<now, mode, pc, event, outcome, tasks>>
    \/ ReadSchedule

StoreSpec == StoreInit /\ [][StoreNext]_vars

\* what the dispatcher read is a whole document, or the absence of one
ReadWhole ==
    loaded.calls > 0 =>
        \/ loaded.schedule.kind = "return"
        \/ loaded.schedule.exc = "NotFound"

\* a step that changes a stored schedule puts the planner's whole new
\* document in its place
ReplacedWhole ==
    \A f \in FnSet :
        bucket'[f] # bucket[f] =>
            bucket'[f] = [exists |-> TRUE, doc |-> run.schedules[f]]

\* C25: schedule writes are whole-document replacements, on the local and
\* on the cloud backend: a dispatcher read that interleaves with a planner
\* write of the same key observes the complete previous or the complete new
\* document, and a write that cannot complete leaves the previous schedule
\* untouched.
C25_WholeDocument == []ReadWhole /\ [][ReplacedWhole]_vars

---------------------------------------------------------------------------
(* Planning runs one after another over the same function_metadata.json:   *)
(* each run finds in the Object Store what the runs before it wrote. The   *)
(* functions carry no code, so the deployment step skips them.             *)

\* the last instant, in half days, at which a run starts
Horizon == 21

\* the half days between the start of a run and the start of the next
Intervals == {5, 6}

RerunEntriesOfA ==
    {Object([allowed_regions |-> <<"europe-west1", "europe-north1">>,
             gpu_required |-> TRUE]),
     Object([allowed_regions |-> <<"us-east1">>, latency_important |-> TRUE,
             source_location |-> "europe-west1"]),
     Object([gpu_required |-> TRUE]),
     Object([allow_schedule_caching |-> FALSE])}

RerunFiles ==
    {[f \in FnSet |->
         IF f = "A" THEN a
         ELSE Object([allowed_regions |-> <<"europe-north1">>])] :
        a \in RerunEntriesOfA}

\* what the LLM answers: a schedule, or an error of the API
RerunAnswers(day) ==
    {Return([recommendations |->
                RecsOf("std", day, <<1, 2>>,
                       <<"europe-west1", "europe-north1">>)]),
     Raise("APIError")}

\* no schedule has been generated yet
RerunInit ==
    /\ now = 0
    /\ mode = "CLOUD"
    /\ pc = "idle"
    /\ event = NoEvent
    /\ loaded = NotLoaded
    /\ outcome = [kind |-> "none"]
    /\ tasks = <<>>
    /\ wallclock = 1
    /\ metadata_file \in RerunFiles
    /\ bucket = [f \in FnSet |-> Absent]
    /\ state_file = <<>>
    /\ run = NoRun
    /\ calls = <<>>

\* the run is over; the next POST /run arrives later
NextRun(interval) ==
    /\ run.pc \in {"finished", "failed"}
    /\ wallclock + interval <= Horizon
    /\ wallclock' = wallclock + interval
    /\ run' = NoRun
    /\ calls' = <<>>
    /\ UNCHANGED <<metadata_file, bucket, state_file>>

RerunNext ==
    \/ /\ StartRun([f \in FnSet |-> Raise("ExtractionError")])
       /\ UNCHANGED dispatcher_vars
    \/ /\ \E failing \in {{}, RegionCodes} : FetchForecasts(failing)
       /\ UNCHANGED dispatcher_vars
    \/ /\ Refresh
       /\ UNCHANGED dispatcher_vars
    \/ /\ \E answer \in RerunAnswers(Days(wallclock)) : RankOne(answer)
       /\ UNCHANGED dispatcher_vars
    \/ /\ DeployOne(Raise("MCPError"), "raise")
       /\ UNCHANGED dispatcher_vars
    \/ /\ SaveState
       /\ UNCHANGED dispatcher_vars
    \/ /\ \E interval \in Intervals : NextRun(interval)
       /\ UNCHANGED dispatcher_vars

RerunSpec == RerunInit /\ [][RerunNext]_vars

\* the entry of func_name is a JSON object that allows caching
CachingStructured(func_name) ==
    /\ metadata_file[func_name].kind = "object"
    /\ AsGiven(func_name).allow_schedule_caching

\* the filters of step 3 changed the allowed regions of the metadata the
\* stored schedule of func_name was ranked with
RegionsRewritten(func_name) ==
    bucket[func_name].doc.metadata.function_metadata.allowed_regions
        # AsGiven(func_name).allowed_regions

\* C26: the hash stored in a regenerated schedule is that of the metadata
\* before the latency and GPU filters: a run that follows within the age
\* limit, function_metadata unchanged, finds the cache of a structured
\* function that allows caching valid, also when the filters rewrote its
\* allowed_regions in the run that generated the schedule.
C26_HashBeforeFiltering ==
    CacheChecked =>
        \A f \in FnSet :
            /\ CachingStructured(f)
            /\ bucket[f].exists
            /\ wallclock - bucket[f].doc.metadata.created_at
                   <= timedelta(MAX_FORECAST_AGE_DAYS)
            => /\ FoundValid(f)
               /\ bucket[f].doc.metadata.metadata_hash
                      = compute_metadata_hash(AsGiven(f))

\* a run found valid the schedule of A that an earlier run had ranked with
\* rewritten allowed_regions
C26_Witness ==
    /\ CacheChecked
    /\ bucket["A"].exists
    /\ RegionsRewritten("A")
    /\ FoundValid("A")
    /\ wallclock > bucket["A"].doc.metadata.created_at

---------------------------------------------------------------------------
(* The dispatcher: the bound on the target time                            *)

\* the dispatcher on the requests that name a function: the others are
\* rejected before a schedule is read
NamedEvents == {e \in Events : Named(e)}

DeadlineNext ==
    \/ Tick
    \/ /\ pc = "idle"
       /\ \E e \in NamedEvents :
             \E schedule \in ReadsOf(e) : Handler(e, schedule)

DeadlineSpec == Init /\ [][DeadlineNext]_vars

\* C27: for every schedule, clock and request answered with 200, the
\* target time is not before the start of the current hour and not after
\* the effective deadline (now for delay "false" or a past deadline, the
\* given deadline otherwise), whichever branch selected the slot: the
\* earliest slot moved to the deadline, the last slot moved to the hour of
\* the deadline, or the slot of least priority number in the window.
C27_DeadlineBound ==
    Scheduled =>
        /\ HourStart(now) <= Response.target_time
        /\ Response.target_time <= EffectiveDeadline

\* a request with a later deadline was given the last slot of a schedule
\* that ends before the current hour, at the hour of the deadline
C27_Witness ==
    /\ Scheduled
    /\ HasSlots
    /\ Latest < HourStart(now)
    /\ EffectiveDeadline > now
    /\ Response.target_time = HourStart(EffectiveDeadline)
    /\ Response.target_time < EffectiveDeadline

---------------------------------------------------------------------------
(* The planner: what the candidates of a function depend on                *)

\* the regions func_name would be ranked over were it the only function
\* needing a schedule, the forecast requests of the zones failing failing
AloneCandidates(func_name, failing) ==
    LET func_metadata == AsGiven(func_name)
        assembled == AssembleRegions(func_metadata)
        filtered == [func_metadata EXCEPT
                        !.allowed_regions = assembled.allowed_regions]
    IN filtered_forecasts(filtered,
                          RequestedRegions(assembled.added) \ failing)

\* C28: within a run the regions passed to the ranker for a function are
\* determined by its own metadata, the static config and the zones whose
\* fetch failed: they are the regions it would be ranked over without the
\* other functions of function_metadata, also when it has an empty
\* allow-list and no latency or GPU requirement.
C28_Independent ==
    \A i \in RankCalls :
        \E failing \in SUBSET RegionCodes :
            calls[i][3] = AloneCandidates(calls[i][2], failing)

---------------------------------------------------------------------------
(* The planner's writes as the dispatcher sees them                        *)

\* the persisted schedule of func_name has slots, each with the
\* function_url that schedule_function reads
Dispatchable(func_name) ==
    /\ bucket[func_name].exists
    /\ "recommendations" \in DOMAIN bucket[func_name].doc
    /\ bucket[func_name].doc.recommendations # <<>>
    /\ \A i \in 1..Len(bucket[func_name].doc.recommendations) :
          "function_url" \in DOMAIN bucket[func_name].doc.recommendations[i]

\* C29: a schedule that had function_url in every slot before a planning
\* run stays so at every point of the run, between the write after the
\* ranking and the write after the deployment and after a failed
\* deployment: no step of the run replaces it by a schedule whose slots
\* lack function_url, so a dispatcher request always finds the URL of the
\* slot it selects.
C29_StaysDispatchable ==
    [][\A f \in FnSet : Dispatchable(f) => Dispatchable(f)']_vars

---------------------------------------------------------------------------
(* The age of a schedule over several runs                                 *)

\* created_at and generated_at of the stored schedule of func_name
CreatedAt(func_name) == bucket[func_name].doc.metadata.created_at

GeneratedAt(func_name) == bucket[func_name].doc.metadata.generated_at

\* the stored schedule of func_name is past the age limit: created more
\* than 7 days ago
Expired(func_name) ==
    wallclock - CreatedAt(func_name) > timedelta(MAX_FORECAST_AGE_DAYS)

\* the run has ranked or refreshed every function
SchedulesDone == run.pc \in {"deploy", "save", "finished"}

\* in this run the forecasts were fetched and func_name was ranked anew
Regenerated(func_name) ==
    /\ FetchCalls # {}
    /\ \E i \in RankCalls : calls[i][2] = func_name
    /\ "error" \notin DOMAIN run.schedules[func_name]
           => CreatedAt(func_name) = wallclock

\* the cache check goes by created_at alone, and the run acts on it: a
\* schedule within the limit is re-stamped, one past it regenerated
ByCreatedAt ==
    \A f \in FnSet :
        CachingStructured(f) =>
            /\ CacheChecked /\ bucket[f].exists
                  => (FoundValid(f) <=> ~Expired(f))
            /\ SchedulesDone /\ FoundValid(f)
                  => /\ GeneratedAt(f) = wallclock
                     /\ ~Expired(f)
                     /\ \A i \in RankCalls : calls[i][2] # f
            /\ SchedulesDone /\ ~FoundValid(f) => Regenerated(f)

\* a step that writes a cached schedule back leaves its created_at alone
RefreshKeepsCreatedAt ==
    \A f \in FnSet :
        (run.pc = "refresh" /\ bucket'[f] # bucket[f])
            => /\ CreatedAt(f)' = CreatedAt(f)
               /\ GeneratedAt(f)' = wallclock

\* C30: a cache-hit refresh never changes created_at, so over any sequence
\* of runs with unchanged metadata a schedule created at T is re-stamped on
\* the runs within the age limit and regenerated (forecasts fetched, ranking
\* re-run, created_at reset) on the first run after the limit has passed,
\* however many refreshes happened in between.
C30_RefreshKeepsAge == []ByCreatedAt /\ [][RefreshKeepsCreatedAt]_vars

====
